---- MODULE Spec2Model ----
(***************************************************************************)
(* Model of the media-download orchestrator of my-tiktok-bot:              *)
(*   src/src/downloader.py   Downloader (router, yt-dlp engine, Pinterest) *)
(*   src/src/cobalt_api.py   CobaltDownloader (TikTok scraper adapters)    *)
(*   src/src/facebook_api.py FacebookDownloader (Facebook scraper adapters)*)
(*                                                                         *)
(* Strings the code inspects character by character (URLs, domain names)   *)
(* are sequences of one-character strings, so that `d in url_lower` is a   *)
(* real substring test.  The download directory is a sequence of file      *)
(* entries ordered by modification time (oldest first).  Everything the    *)
(* network, the helper services and yt-dlp decide is drawn with \E from a  *)
(* small set of outcomes.                                                  *)
(***************************************************************************)
EXTENDS Integers, Sequences, FiniteSets, TLC

(***************************************************************************)
(* Bounds of the model.                                                    *)
(***************************************************************************)
\* number of download() calls that may be in flight together
NumRequests == 2
\* the event-loop clock runs over 0..MaxTime (seconds)
MaxTime == 1
\* a slideshow post has 1..MaxImages images
MaxImages == 2

(***************************************************************************)
(* Program constants.                                                      *)
(***************************************************************************)
\* 1024 * 1024
MiB == 1048576
\* src/config.py:30: 49 * 1024 * 1024
MAX_FILE_SIZE == 51380224
\* cobalt_api.py:43,52 and facebook_api.py:37,46 spell the cap out:
\* 49 * 1024 * 1024
ADAPTER_MAX_SIZE == 51380224
\* cobalt_api.py:50, facebook_api.py:44: iter_chunked(1024 * 1024)
ADAPTER_CHUNK == 1048576
\* downloader.py:617: iter_chunked(64 * 1024)
DIRECT_CHUNK == 65536
\* downloader.py:69
max_retries == 3
\* downloader.py:452: a file younger than 60 s counts as just downloaded
FRESH_SECONDS == 60

(***************************************************************************)
(* Strings are sequences of characters.                                    *)
(***************************************************************************)
\* The URLs the requests of the model are made for, one per platform branch.
URL_TIKTOK ==
    <<"h","t","t","p","s",":","/","/","v","t",".","t","i","k","t","o","k",".","c","o","m","/","A","B","C","1","2","3","/">>
URL_FACEBOOK ==
    <<"h","t","t","p","s",":","/","/","w","w","w",".","f","a","c","e","b","o","o","k",".","c","o","m","/","w","a","t","c","h","?","v","=","1">>
URL_PINTEREST ==
    <<"h","t","t","p","s",":","/","/","p","i","n",".","i","t","/","a","1">>
\* the long form of a pin link
URL_PINTEREST_COM ==
    <<"h","t","t","p","s",":","/","/","w","w","w",".","p","i","n","t","e","r","e","s","t",".","c","o","m","/","p","i","n","/","1","2","/">>
\* a Shorts link with its tracking parameter, and the watch URL it is
\* rewritten to for the engine
URL_YOUTUBE ==
    <<"h","t","t","p","s",":","/","/","y","o","u","t","u","b","e",".","c","o","m","/","s","h","o","r","t","s","/","a","1","?","s","i","=","b","2">>
URL_WATCH ==
    <<"h","t","t","p","s",":","/","/","w","w","w",".","y","o","u","t","u","b","e",".","c","o","m","/","w","a","t","c","h","?","v","=","a","1","&","s","i","=","b","2">>
URL_OTHER ==
    <<"h","t","t","p","s",":","/","/","v","i","m","e","o",".","c","o","m","/","1">>
\* what the Pinterest page may link to
URL_MANIFEST ==
    <<"h","t","t","p","s",":","/","/","v",".","p","i","n","i","m","g",".","c","o","m","/","a","1",".","m","3","u","8">>
URL_CDN_MP4 ==
    <<"h","t","t","p","s",":","/","/","v",".","p","i","n","i","m","g",".","c","o","m","/","a","1",".","m","p","4">>

RequestUrls ==
    <<URL_TIKTOK, URL_FACEBOOK, URL_PINTEREST, URL_PINTEREST_COM, URL_YOUTUBE, URL_OTHER>>
\* further links a chat message may hold: two that carry the name of a
\* platform domain without leading to it (a host that continues after the
\* name, a name in the user part in front of a link-local address) and two
\* that lead to the local machine or network
OtherLinkUrls ==
    <<<<"h","t","t","p","s",":","/","/","y","o","u","t","u","b","e",".","c","o","m",".","e","v","i","l",".","n","e","t","/","a","1">>,
      <<"h","t","t","p",":","/","/","x",".","c","o","m","@","1","6","9",".","2","5","4",".","1","6","9",".","2","5","4","/","a","1">>,
      <<"h","t","t","p",":","/","/","l","o","c","a","l","h","o","s","t","/","y","o","u","t","u","b","e",".","c","o","m">>,
      <<"h","t","t","p",":","/","/","x",".","c","o","m","@","1","0",".","0",".","0",".","1","/","a","1">>>>
AllUrls ==
    RequestUrls \o <<URL_WATCH, URL_MANIFEST, URL_CDN_MP4>> \o OtherLinkUrls
MediaKinds ==
    {"video", "audio", "photo"}

UpperCase ==
    <<"A","B","C","D","E","F","G","H","I","J","K","L","M","N","O","P","Q","R","S","T","U","V","W","X","Y","Z">>
LowerCase ==
    <<"a","b","c","d","e","f","g","h","i","j","k","l","m","n","o","p","q","r","s","t","u","v","w","x","y","z">>

\* str.lower()
Lower(s) ==
    LET LowerChar(c) ==
            IF \E i \in 1..26 : UpperCase[i] = c
            THEN LowerCase[CHOOSE i \in 1..26 : UpperCase[i] = c]
            ELSE c
    IN  [i \in 1..Len(s) |-> LowerChar(s[i])]

\* Python's `needle in hay` on strings
Contains(needle, hay) ==
    \E i \in 1..(Len(hay) - Len(needle) + 1) :
        SubSeq(hay, i, i + Len(needle) - 1) = needle

\* any(d in url_lower for d in domains)
AnyIn(domains, url_lower) ==
    \E d \in domains : Contains(d, url_lower)

\* Downloader._detect_platform
_detect_platform(url) ==
    LET url_lower == Lower(url) IN
    IF AnyIn({<<"y","o","u","t","u","b","e",".","c","o","m">>, <<"y","o","u","t","u",".","b","e">>}, url_lower) THEN "youtube"
    ELSE IF AnyIn({<<"t","i","k","t","o","k",".","c","o","m">>, <<"v","m",".","t","i","k","t","o","k",".","c","o","m">>, <<"v","t",".","t","i","k","t","o","k",".","c","o","m">>}, url_lower) THEN "tiktok"
    ELSE IF AnyIn({<<"f","a","c","e","b","o","o","k",".","c","o","m">>, <<"f","b",".","w","a","t","c","h">>, <<"f","b",".","c","o","m">>}, url_lower) THEN "facebook"
    ELSE IF AnyIn({<<"i","n","s","t","a","g","r","a","m",".","c","o","m">>, <<"i","n","s","t","a","g","r",".","a","m">>}, url_lower) THEN "instagram"
    ELSE IF AnyIn({<<"t","w","i","t","t","e","r",".","c","o","m">>, <<"x",".","c","o","m">>, <<"t",".","c","o">>}, url_lower) THEN "twitter"
    ELSE IF AnyIn({<<"p","i","n","t","e","r","e","s","t",".","c","o","m">>, <<"p","i","n",".","i","t">>}, url_lower) THEN "pinterest"
    ELSE "other"

\* _detect_platform of every URL of the model, computed once
PlatformOf ==
    [url \in { AllUrls[i] : i \in 1..Len(AllUrls) } |-> _detect_platform(url)]

\* abs(hash(url)): equal for equal strings, and (collisions aside) different
\* for different ones; the model uses the URL's index among the URLs it knows.
HashOf(url) ==
    CHOOSE i \in 1..Len(AllUrls) : AllUrls[i] = url

(***************************************************************************)
(* The download directory.                                                 *)
(*                                                                         *)
(* A path is a record of the pieces the code formats into the file name.   *)
(* A directory is a sequence of entries [path, size, mtime, by, whole],    *)
(* oldest modification first; `by` (the request that wrote the file last)  *)
(* and `whole` (the transfer that wrote it ran to its end) are history.    *)
(***************************************************************************)
Path(kind, h, t, ext) ==
    [kind |-> kind, h |-> h, t |-> t, ext |-> ext]

\* t = -1: the name carries no timestamp
NoPath ==
    Path("", 0, -1, "")

\* os.path.exists
Exists(dir, p) ==
    \E i \in 1..Len(dir) : dir[i].path = p

\* os.remove
Remove(dir, p) ==
    SelectSeq(dir, LAMBDA e : e.path # p)

\* open(p, "wb"), the writes that follow and the close: the file is created
\* or truncated, holds `size` bytes and becomes the newest of the directory.
WriteFile(dir, p, size, clock, by, whole) ==
    Append(Remove(dir, p),
           [path |-> p, size |-> size, mtime |-> clock, by |-> by, whole |-> whole])

SizeOf(dir, p) ==
    LET i == CHOOSE j \in 1..Len(dir) : dir[j].path = p IN dir[i].size

(***************************************************************************)
(* What a media server answers to a GET: the HTTP status (0: the           *)
(* connection fails and the client raises), the Content-Length header (0:  *)
(* no header), the bytes of the body and the number of bytes after which   *)
(* the connection breaks (-1: it does not).                                *)
(***************************************************************************)
SmallBody ==
    3 * MiB + 200 * 1024
BigBody ==
    50 * MiB

Response(status, content_length, body, drop) ==
    [status |-> status, content_length |-> content_length, body |-> body, drop |-> drop]

Responses ==
    { Response(200, SmallBody, SmallBody, -1),
      Response(200, BigBody, BigBody, -1),
      Response(200, 0, BigBody, -1),
      Response(200, SmallBody, SmallBody, MiB),
      Response(404, 0, 0, -1),
      Response(0, 0, 0, -1) }

Min(a, b) ==
    IF a < b THEN a ELSE b

\* a chunk loop that writes each chunk before it looks at the running total
ChunkLoopWritingFirst(chunk_size, limit, body, drop) ==
    LET Ceil(a) == (a + chunk_size - 1) \div chunk_size
        Stop(k, kDrop, kEnd) ==
            [ok |-> k = kEnd /\ k # kDrop,
             written |-> Min(k * chunk_size, body),
             why |-> IF k = kDrop THEN "network_error"
                     ELSE IF k = kEnd THEN "" ELSE "too_large"]
        Passes(kDrop, kEnd, kOver) ==
            Stop(Min(kDrop, Min(kEnd, kOver)), kDrop, kEnd)
        Loop(kEnd) ==
            Passes(IF drop >= 0 /\ body >= drop THEN Ceil(drop) ELSE kEnd + 1,
                   kEnd,
                   IF body > limit THEN Min(limit \div chunk_size + 1, kEnd) ELSE kEnd + 1)
    IN  Loop(Ceil(body))

\* A chunk loop "for chunk in iter_chunked(chunk_size)" that adds each chunk
\* to a running total, stops when the total exceeds limit and writes the
\* chunk otherwise, in closed form: pass k of the loop starts with
\* Min(k * chunk_size, body) bytes written.  The connection breaks (drop >= 0)
\* once drop bytes were received.
ChunkLoop(chunk_size, limit, body, drop) ==
    LET Ceil(a) == (a + chunk_size - 1) \div chunk_size
        Stop(k, kDrop, kEnd) ==
            [ok |-> k = kEnd /\ k # kDrop,
             written |-> Min(k * chunk_size, body),
             why |-> IF k = kDrop THEN "network_error"
                     ELSE IF k = kEnd THEN "" ELSE "too_large"]
        Passes(kDrop, kEnd, kOver) ==
            Stop(Min(kDrop, Min(kEnd, kOver)), kDrop, kEnd)
        Loop(kEnd) ==
            Passes(IF drop >= 0 /\ body >= drop THEN Ceil(drop) ELSE kEnd + 1,
                   kEnd,
                   IF body > limit THEN Min(limit \div chunk_size, kEnd - 1) ELSE kEnd + 1)
    IN  Loop(Ceil(body))

\* The chunk loop of the adapters' _download_file.
AdapterChunkLoop(body, drop) ==
    ChunkLoop(ADAPTER_CHUNK, ADAPTER_MAX_SIZE, body, drop)

\* CobaltDownloader._download_file and FacebookDownloader._download_file (the
\* two are the same code): [ok, dir, why, created], dir the directory after.
_download_file(dir, resp, filename, clock, by) ==
    LET Streamed(loop) ==
            [ok |-> loop.ok,
             dir |-> WriteFile(dir, filename, loop.written, clock, by, loop.ok),
             why |-> loop.why,
             created |-> TRUE]
    IN  IF resp.status = 0
        THEN [ok |-> FALSE, dir |-> dir, why |-> "network_error", created |-> FALSE]
        ELSE IF resp.status # 200
        THEN [ok |-> FALSE, dir |-> dir, why |-> "http_error", created |-> FALSE]
        ELSE IF resp.content_length # 0 /\ resp.content_length > ADAPTER_MAX_SIZE
        THEN [ok |-> FALSE, dir |-> dir, why |-> "too_large", created |-> FALSE]
        ELSE Streamed(AdapterChunkLoop(resp.body, resp.drop))

\* The chunk loop of Downloader._download_direct_mp4: on excess the partial
\* file is removed by the caller; a broken connection raises.
DirectChunkLoop(body, drop) ==
    ChunkLoop(DIRECT_CHUNK, MAX_FILE_SIZE, body, drop)

(***************************************************************************)
(* The texts of the code: the messages of its results.                     *)
(***************************************************************************)
MSG ==
    [ \* Downloader._check_size_sync
     CANNOT_EXTRACT |->
        <<"C","a","n","n","o","t"," ","e","x","t","r","a","c","t"," ","v","i","d","e","o"," ","i","n","f","o">>,
     NO_VIDEOS |->
        <<"N","o"," ","v","i","d","e","o","s"," ","f","o","u","n","d">>,
     \* f"File too large: {size_mb:.1f}MB (limit: {limit_mb:.0f}MB)" for the 50 MiB body of the model
     TOO_LARGE_PROBE |->
        <<"F","i","l","e"," ","t","o","o"," ","l","a","r","g","e",":"," ","5","0",".","0","M","B"," ","(","l","i","m","i","t",":"," ","4","9","M","B",")">>,
     \* Downloader._download_sync
     NOT_FOUND |->
        <<"F","i","l","e"," ","n","o","t"," ","f","o","u","n","d"," ","a","f","t","e","r"," ","d","o","w","n","l","o","a","d">>,
     TOO_LARGE |->
        <<"F","i","l","e"," ","t","o","o"," ","l","a","r","g","e"," ","(",">","4","9","M","B",")">>,
     UNAVAILABLE |->
        <<"V","i","d","e","o"," ","u","n","a","v","a","i","l","a","b","l","e"," ","o","r"," ","p","r","i","v","a","t","e">>,
     AGE |->
        <<"A","g","e","-","r","e","s","t","r","i","c","t","e","d","."," ","N","e","e","d"," ","c","o","o","k","i","e","s",".","t","x","t">>,
     RATE |->
        <<"R","a","t","e"," ","l","i","m","i","t","e","d","."," ","T","r","y"," ","i","n"," ","5"," ","m","i","n","u","t","e","s">>,
     FORBIDDEN |->
        <<"A","c","c","e","s","s"," ","f","o","r","b","i","d","d","e","n","."," ","M","a","y"," ","b","e"," ","r","e","g","i","o","n","-","b","l","o","c","k","e","d">>,
     \* downloader.py:497 is a Khmer sentence that starts with the word YouTube; its Khmer letters are left out
     YOUTUBE_CHANGED |->
        <<"Y","o","u","T","u","b","e">>,
     DOWNLOAD_FAILED_ |->
        <<"D","o","w","n","l","o","a","d"," ","f","a","i","l","e","d",":"," ">>,
     ERROR_ |->
        <<"E","r","r","o","r",":"," ">>,
     \* Downloader.download_with_ytdlp
     SYSTEM_ERROR |->
        <<"S","y","s","t","e","m"," ","e","r","r","o","r">>,
     FAILED_AFTER |->
        <<"F","a","i","l","e","d"," ","a","f","t","e","r"," ","3"," ","a","t","t","e","m","p","t","s">>,
     \* Downloader._download_tiktok_slideshow_sync
     NO_IMAGES |->
        <<"N","o"," ","i","m","a","g","e","s"," ","f","o","u","n","d"," ","f","o","r"," ","t","h","i","s"," ","T","i","k","T","o","k"," ","l","i","n","k">>,
     \* Downloader._download_pinterest and _download_direct_mp4
     PIN_VIDEO_ONLY |->
        <<"P","i","n","t","e","r","e","s","t"," ","s","u","p","p","o","r","t","s"," ","v","i","d","e","o"," ","o","n","l","y">>,
     PIN_FETCH_FAILED_ |->
        <<"P","i","n","t","e","r","e","s","t"," ","f","e","t","c","h"," ","f","a","i","l","e","d",":"," ">>,
     PIN_BLOCKING |->
        <<"P","i","n","t","e","r","e","s","t"," ","i","s"," ","b","l","o","c","k","i","n","g"," ","a","u","t","o","m","a","t","e","d"," ","d","o","w","n","l","o","a","d","s","."," ","T","r","y"," ","a","g","a","i","n"," ","l","a","t","e","r"," ","o","r"," ","p","r","o","v","i","d","e"," ","c","o","o","k","i","e","s",".","t","x","t",".">>,
     HTTP_404 |->
        <<"H","T","T","P"," ","4","0","4"," ","w","h","i","l","e"," ","f","e","t","c","h","i","n","g"," ","m","e","d","i","a">>,
     TOO_LARGE_STREAM |->
        <<"F","i","l","e"," ","t","o","o"," ","l","a","r","g","e"," ","(","l","i","m","i","t",":"," ","4","9","M","B",")">>,
     \* CobaltDownloader
     COBALT_FAILED |->
        <<"A","l","l"," ","C","o","b","a","l","t"," ","e","n","d","p","o","i","n","t","s"," ","f","a","i","l","e","d">>,
     NO_LINK |->
        <<"N","o"," ","d","o","w","n","l","o","a","d"," ","l","i","n","k">>,
     NO_VIDEO_URL |->
        <<"N","o"," ","v","i","d","e","o"," ","U","R","L">>,
     \* FacebookDownloader
     FB_AUDIO |->
        <<"A","u","d","i","o","-","o","n","l","y"," ","d","o","w","n","l","o","a","d"," ","n","o","t"," ","a","v","a","i","l","a","b","l","e"," ","f","o","r"," ","F","a","c","e","b","o","o","k"," ","v","i","d","e","o","s",".">>,
     \* facebook_api.py:297-304; the bullet list of reasons is shortened to its first line
     FB_ALL_FAILED |->
        <<"C","a","n","n","o","t"," ","d","o","w","n","l","o","a","d"," ","t","h","i","s"," ","F","a","c","e","b","o","o","k"," ","v","i","d","e","o","."," ","P","o","s","s","i","b","l","e"," ","r","e","a","s","o","n","s",":">>,
     \* texts of exceptions: an IndexError of the extractor, a connection error of aiohttp
     E_INDEX |->
        <<"l","i","s","t"," ","i","n","d","e","x"," ","o","u","t"," ","o","f"," ","r","a","n","g","e">>,
     E_CONNECT |->
        <<"C","a","n","n","o","t"," ","c","o","n","n","e","c","t"," ","t","o"," ","h","o","s","t">>]

(***************************************************************************)
(* Results.  download() and every provider return a dictionary with a      *)
(* "status"; the model gives it all its keys at once (NoPath, <<>> and ""  *)
(* stand for a key that is absent).  The status "raised" is not a          *)
(* dictionary: it records that the call ended with an exception            *)
(* propagating to its caller.                                              *)
(***************************************************************************)
NoResult ==
    [status |-> "none", file_path |-> NoPath, file_paths |-> <<>>,
     message |-> <<>>, media_kind |-> ""]

Success(file_path) ==
    [NoResult EXCEPT !.status = "success", !.file_path = file_path]

Slideshow(file_paths) ==
    [NoResult EXCEPT !.status = "success", !.file_paths = file_paths,
                     !.media_kind = "slideshow"]

Error(message) ==
    [NoResult EXCEPT !.status = "error", !.message = message]

Raised(text) ==
    [NoResult EXCEPT !.status = "raised", !.message = text]

(***************************************************************************)
(* yt-dlp options.  Of the dictionary _get_opts builds, the model keeps    *)
(* the keys that differ between platforms, media kinds and probe/download: *)
(* outtmpl (TRUE: "downloads/%(id)s.%(ext)s"), max_filesize (0: absent),   *)
(* format, merge_output_format, postprocessors, postprocessor_args (the    *)
(* set of its keys), noplaylist and the User-Agent (index in USER_AGENTS), *)
(* and extractor_args, which line 227 sets to the dictionary of the class  *)
(* itself: [ref |-> name] is a reference to a dictionary of                *)
(* EXTRACTOR_ARGS, a record whose ref is "" a dictionary of its own.       *)
(***************************************************************************)
PostProcessor(key, preferredcodec, preferedformat) ==
    [key |-> key, preferredcodec |-> preferredcodec, preferedformat |-> preferedformat]

\* option building whose audio block leaves the platform's video settings
\* in place
GetOptsKeepingPlatformOpts(download_type, url, check_only) ==
    LET platform == PlatformOf[url]
        common_opts ==
            [noplaylist |-> TRUE,
             outtmpl |-> ~check_only,
             max_filesize |-> IF check_only THEN 0 ELSE MAX_FILE_SIZE,
             format |-> "",
             merge_output_format |-> "",
             postprocessors |-> <<>>,
             postprocessor_args |-> {},
             user_agent |-> 1,
             extractor_args |-> [ref |-> "EXTRACTOR_ARGS"]]
        platform_opts ==
            IF platform = "tiktok"
            THEN [common_opts EXCEPT
                    !.format = "h264_mp4",
                    !.merge_output_format = IF check_only THEN "" ELSE "mp4",
                    !.postprocessors =
                        IF check_only THEN <<>>
                        ELSE <<PostProcessor("FFmpegVideoConvertor", "", "mp4")>>,
                    !.postprocessor_args =
                        IF check_only THEN {} ELSE {"videoconvertor"}]
            ELSE IF platform \in {"instagram", "facebook"}
            THEN [common_opts EXCEPT !.format = "best"]
            ELSE common_opts
    IN  IF download_type = "audio"
        THEN [platform_opts EXCEPT
                !.format = "bestaudio",
                !.postprocessors =
                    IF check_only THEN <<>>
                    ELSE <<PostProcessor("FFmpegExtractAudio", "mp3", "")>>,
                !.max_filesize = 0]
        ELSE IF platform = "youtube" /\ download_type = "video"
        THEN [platform_opts EXCEPT
                !.format = "1080p_mp4",
                !.merge_output_format = IF check_only THEN "" ELSE "mp4"]
        ELSE platform_opts

\* Downloader._get_opts
_get_opts(download_type, url, check_only) ==
    LET platform == PlatformOf[url]
        common_opts ==
            [noplaylist |-> TRUE,
             outtmpl |-> ~check_only,
             max_filesize |-> IF check_only THEN 0 ELSE MAX_FILE_SIZE,
             format |-> "",
             merge_output_format |-> "",
             postprocessors |-> <<>>,
             postprocessor_args |-> {},
             user_agent |-> 1,
             extractor_args |-> [ref |-> "EXTRACTOR_ARGS"]]
        platform_opts ==
            IF platform = "tiktok"
            THEN [common_opts EXCEPT
                    !.format = "h264_mp4",
                    !.merge_output_format = IF check_only THEN "" ELSE "mp4",
                    !.postprocessors =
                        IF check_only THEN <<>>
                        ELSE <<PostProcessor("FFmpegVideoConvertor", "", "mp4")>>,
                    !.postprocessor_args =
                        IF check_only THEN {} ELSE {"videoconvertor"}]
            ELSE IF platform \in {"instagram", "facebook"}
            THEN [common_opts EXCEPT !.format = "best"]
            ELSE common_opts
    IN  IF download_type = "audio"
        THEN [platform_opts EXCEPT
                !.format = "bestaudio",
                !.postprocessors =
                    IF check_only THEN <<>>
                    ELSE <<PostProcessor("FFmpegExtractAudio", "mp3", "")>>,
                !.postprocessor_args = {},
                !.merge_output_format = "",
                !.max_filesize = 0]
        ELSE IF platform = "youtube" /\ download_type = "video"
        THEN [platform_opts EXCEPT
                !.format = "1080p_mp4",
                !.merge_output_format = IF check_only THEN "" ELSE "mp4"]
        ELSE platform_opts

(***************************************************************************)
(* What one run of the extractor does (ydl.extract_info(url, download =    *)
(* True)), decided by the site and by yt-dlp:                              *)
(*   info         it returns metadata; info_ext is the extension           *)
(*                prepare_filename predicts, actual_ext the extension of   *)
(*                the file it wrote ("": it wrote none), size the bytes of *)
(*                that file, announced whether the server told the size    *)
(*                before the transfer;                                     *)
(*   noinfo       it returns nothing;                                      *)
(*   raise_dl     it raises DownloadError(text);                           *)
(*   raise_other  it raises another exception;                             *)
(*   no_run       the job itself cannot run (YoutubeDL() raises, the       *)
(*                executor refuses the job).                               *)
(***************************************************************************)
Extraction(kind, text, info_ext, actual_ext, size, announced) ==
    [kind |-> kind, text |-> text, info_ext |-> info_ext,
     actual_ext |-> actual_ext, size |-> size, announced |-> announced]

DownloadErrorTexts ==
    {<<"E","R","R","O","R",":"," ","F","i","l","e"," ","i","s"," ","l","a","r","g","e","r"," ","t","h","a","n"," ","m","a","x","-","f","i","l","e","s","i","z","e">>, <<"E","R","R","O","R",":"," ","V","i","d","e","o"," ","u","n","a","v","a","i","l","a","b","l","e">>, <<"E","R","R","O","R",":"," ","P","r","i","v","a","t","e"," ","v","i","d","e","o">>, <<"E","R","R","O","R",":"," ","S","i","g","n"," ","i","n"," ","t","o"," ","c","o","n","f","i","r","m"," ","y","o","u","r"," ","a","g","e">>, <<"E","R","R","O","R",":"," ","H","T","T","P"," ","E","r","r","o","r"," ","4","2","9",":"," ","T","o","o"," ","M","a","n","y"," ","R","e","q","u","e","s","t","s">>, <<"E","R","R","O","R",":"," ","H","T","T","P"," ","E","r","r","o","r"," ","4","0","3",":"," ","F","o","r","b","i","d","d","e","n">>, <<"E","R","R","O","R",":"," ","F","a","i","l","e","d"," ","t","o"," ","e","x","t","r","a","c","t"," ","a","n","y"," ","p","l","a","y","e","r"," ","r","e","s","p","o","n","s","e">>,
     <<"E","R","R","O","R",":"," ","T","h","i","s"," ","v","i","d","e","o"," ","i","s"," ","p","r","i","v","a","t","e">>, <<"E","R","R","O","R",":"," ","U","n","a","b","l","e"," ","t","o"," ","d","o","w","n","l","o","a","d"," ","w","e","b","p","a","g","e">>}

\* error texts that carry two of the signatures _download_sync looks for,
\* or one in another case
OverlappingErrorTexts ==
    {<<"E","R","R","O","R",":"," ","H","T","T","P"," ","E","r","r","o","r"," ","4","0","3",":"," ","F","o","r","b","i","d","d","e","n","."," ","V","i","d","e","o"," ","u","n","a","v","a","i","l","a","b","l","e">>,
     <<"E","R","R","O","R",":"," ","S","i","g","n"," ","i","n"," ","t","o"," ","c","o","n","f","i","r","m"," ","y","o","u","r"," ","a","g","e","."," ","H","T","T","P"," ","E","r","r","o","r"," ","4","2","9">>,
     <<"E","R","R","O","R",":"," ","H","T","T","P"," ","E","r","r","o","r"," ","4","2","9"," ","a","f","t","e","r"," ","H","T","T","P"," ","E","r","r","o","r"," ","4","0","3">>,
     <<"E","R","R","O","R",":"," ","P","r","i","v","a","t","e"," ","v","i","d","e","o","."," ","F","i","l","e"," ","i","s"," ","l","a","r","g","e","r"," ","t","h","a","n"," ","m","a","x","-","f","i","l","e","s","i","z","e">>,
     <<"E","R","R","O","R",":"," ","H","T","T","P"," ","E","r","r","o","r"," ","4","0","3","."," ","F","a","i","l","e","d"," ","t","o"," ","e","x","t","r","a","c","t"," ","a","n","y"," ","p","l","a","y","e","r"," ","r","e","s","p","o","n","s","e">>,
     <<"E","R","R","O","R",":"," ","H","T","T","P"," ","E","r","r","o","r"," ","4","1","3",":"," ","P","a","y","l","o","a","d"," ","T","o","o"," ","L","a","r","g","e">>}

\* <<info_ext, actual_ext>>: the file has the predicted extension, the
\* merger wrote another container, the audio post-processor wrote mp3
Extractions ==
    { Extraction("info", <<>>, e[1], e[2], sz[1], sz[2]) :
        e \in {<<"mp4", "mp4">>, <<"webm", "mkv">>, <<"webm", "mp3">>},
        sz \in {<<SmallBody, TRUE>>, <<BigBody, TRUE>>, <<BigBody, FALSE>>} }
    \cup { Extraction("raise_dl", t, "", "", 0, FALSE) : t \in DownloadErrorTexts }
    \cup { Extraction("info", <<>>, "mp4", "", 0, FALSE),
           Extraction("noinfo", <<>>, "", "", 0, FALSE),
           Extraction("raise_other", MSG.E_INDEX, "", "", 0, FALSE),
           Extraction("no_run", <<>>, "", "", 0, FALSE) }

\* f"{DOWNLOAD_DIR}/%(id)s.%(ext)s" (downloader.py:235); %(id)s is the media
\* id the extractor derives from the URL
EnginePath(url, ext) ==
    Path("ytdlp", HashOf(url), -1, ext)

\* yt-dlp honours max_filesize when it learns the size before the transfer:
\* it then skips the download without raising.
YtdlpWrites(opts, o) ==
    /\ o.kind = "info"
    /\ o.actual_ext # ""
    /\ ~(opts.max_filesize # 0 /\ o.announced /\ o.size > opts.max_filesize)

\* the directory after the run of the extractor
YtdlpDir(dir, url, opts, o, clock, by) ==
    IF YtdlpWrites(opts, o)
    THEN WriteFile(dir, EnginePath(url, o.actual_ext), o.size, clock, by, TRUE)
    ELSE dir

CandidateExts ==
    <<"mp3", "mp4", "m4a", "opus", "webm">>

\* downloader.py:412-463: the file name _download_sync reports, NoPath when
\* it finds none
ResolveFilename(dir, url, opts, info_ext, clock) ==
    LET \* str.strip().lower() of the first postprocessor's target, else "mp4"
        PostProcessedExt ==
            LET pp == opts.postprocessors[1] IN
            IF pp.preferredcodec # "" THEN pp.preferredcodec
            ELSE IF pp.preferedformat # "" THEN pp.preferedformat
            ELSE "mp4"
        ext == IF opts.postprocessors # <<>> THEN PostProcessedExt ELSE info_ext
        filename == EnginePath(url, ext)
        hits == { i \in 1..Len(CandidateExts) : Exists(dir, EnginePath(url, CandidateExts[i])) }
        \* os.listdir(DOWNLOAD_DIR) filtered by os.path.isfile: the files of
        \* the directory itself, not those of a slideshow folder
        all_files == SelectSeq(dir, LAMBDA e : e.path.kind # "tiktok_slideshow")
    IN  IF Exists(dir, filename) THEN filename
        ELSE IF hits # {}
        THEN EnginePath(url, CandidateExts[CHOOSE i \in hits : \A j \in hits : i <= j])
        ELSE IF all_files # <<>>
                /\ clock - all_files[Len(all_files)].mtime < FRESH_SECONDS
        THEN all_files[Len(all_files)].path
        ELSE NoPath

\* a classification that looks for the HTTP 403 before anything else
ClassifyForbiddenFirst(error_msg) ==
    IF Contains(<<"H","T","T","P"," ","E","r","r","o","r"," ","4","0","3">>, error_msg) THEN MSG.FORBIDDEN
    ELSE IF Contains(<<"t","o","o"," ","l","a","r","g","e">>, Lower(error_msg)) THEN MSG.TOO_LARGE
    ELSE IF Contains(<<"V","i","d","e","o"," ","u","n","a","v","a","i","l","a","b","l","e">>, error_msg) THEN MSG.UNAVAILABLE
    ELSE MSG.DOWNLOAD_FAILED_ \o SubSeq(error_msg, 1, Min(200, Len(error_msg)))

\* downloader.py:473-504: the message for a DownloadError
ClassifyDownloadError(error_msg) ==
    IF Contains(<<"F","i","l","e"," ","i","s"," ","l","a","r","g","e","r"," ","t","h","a","n">>, error_msg) \/ Contains(<<"t","o","o"," ","l","a","r","g","e">>, Lower(error_msg))
    THEN MSG.TOO_LARGE
    ELSE IF Contains(<<"V","i","d","e","o"," ","u","n","a","v","a","i","l","a","b","l","e">>, error_msg) \/ Contains(<<"P","r","i","v","a","t","e"," ","v","i","d","e","o">>, error_msg)
    THEN MSG.UNAVAILABLE
    ELSE IF Contains(<<"S","i","g","n"," ","i","n"," ","t","o"," ","c","o","n","f","i","r","m">>, error_msg) THEN MSG.AGE
    ELSE IF Contains(<<"H","T","T","P"," ","E","r","r","o","r"," ","4","2","9">>, error_msg) THEN MSG.RATE
    ELSE IF Contains(<<"H","T","T","P"," ","E","r","r","o","r"," ","4","0","3">>, error_msg) THEN MSG.FORBIDDEN
    ELSE IF Contains(<<"F","a","i","l","e","d"," ","t","o"," ","e","x","t","r","a","c","t"," ","a","n","y"," ","p","l","a","y","e","r"," ","r","e","s","p","o","n","s","e">>, error_msg) THEN MSG.YOUTUBE_CHANGED
    ELSE MSG.DOWNLOAD_FAILED_ \o SubSeq(error_msg, 1, Min(200, Len(error_msg)))

\* ClassifyDownloadError of every error text of the model, computed once
MessageOf ==
    [text \in DownloadErrorTexts \cup OverlappingErrorTexts |-> ClassifyDownloadError(text)]

\* Downloader._download_sync: the dictionary it returns, given the run of
\* the extractor and the directory as that run left it
_download_sync(dir, url, opts, o, clock) ==
    IF o.kind = "raise_dl" THEN Error(MessageOf[o.text])
    ELSE IF o.kind = "raise_other"
    THEN Error(MSG.ERROR_ \o SubSeq(o.text, 1, Min(200, Len(o.text))))
    ELSE IF o.kind = "noinfo" THEN Error(MSG.CANNOT_EXTRACT)
    ELSE LET filename == ResolveFilename(dir, url, opts, o.info_ext, clock) IN
         IF filename = NoPath THEN Error(MSG.NOT_FOUND) ELSE Success(filename)

\* a list of permanent errors that lacks the region block
NonRetryableWithoutRegion ==
    {<<"F","i","l","e"," ","t","o","o"," ","l","a","r","g","e">>, <<"u","n","a","v","a","i","l","a","b","l","e">>, <<"p","r","i","v","a","t","e">>, <<"A","g","e","-","r","e","s","t","r","i","c","t","e","d">>}

\* downloader.py:795-802
non_retryable ==
    {<<"F","i","l","e"," ","t","o","o"," ","l","a","r","g","e">>, <<"u","n","a","v","a","i","l","a","b","l","e">>, <<"p","r","i","v","a","t","e">>, <<"A","g","e","-","r","e","s","t","r","i","c","t","e","d">>, <<"r","e","g","i","o","n","-","b","l","o","c","k","e","d">>}

NonRetryable(message) ==
    \E err \in non_retryable : Contains(err, message)

\* NonRetryable of each message _download_sync returns in the model,
\* computed once
IsNonRetryable ==
    [message \in { MessageOf[text] : text \in DownloadErrorTexts }
                 \cup {MSG.ERROR_ \o MSG.E_INDEX, MSG.CANNOT_EXTRACT, MSG.NOT_FOUND} |->
        NonRetryable(message)]

(***************************************************************************)
(* The scraper adapters.  A helper service answers the adapter's API call  *)
(* with no usable link (the adapter returns its error for that case) or    *)
(* with a link, which the adapter hands to _download_file.                 *)
(***************************************************************************)
COBALT_ENDPOINTS ==
    <<"api.cobalt.tools", "co.wuk.sh", "cobalt-api.kwiatekmiki.com">>

\* cobalt_api.py:103-104 and :119
CobaltFilename(url, download_type, answer, clock) ==
    IF answer = "picker"
    THEN Path("tiktok", HashOf(url), -1, "mp4")
    ELSE Path("tiktok", HashOf(url), clock, IF download_type = "audio" THEN "mp3" ELSE "mp4")

\* cobalt_api.py:170
SnapTikFilename(url) ==
    Path("tiktok_snaptik", HashOf(url), -1, "mp4")

\* cobalt_api.py:219
TikWMFilename(url) ==
    Path("tiktok_tikwm", HashOf(url), -1, "mp4")

\* facebook_api.py:108
SnapSaveFilename(url) ==
    Path("fb_snapsave", HashOf(url), -1, "mp4")

\* facebook_api.py:163
SaveFromFilename(url) ==
    Path("fb_savefrom", HashOf(url), -1, "mp4")

\* facebook_api.py:232
FbDownloaderFilename(url) ==
    Path("fb_fbdl", HashOf(url), -1, "mp4")

\* uuid.uuid4().hex: a value no other call draws.  A request draws at most
\* one for a direct fetch and one for a slideshow folder, so the request
\* number stands for it.
uuid4(r) ==
    r

\* downloader.py:589
DirectFilename(r) ==
    Path("uuid", uuid4(r), -1, "mp4")

\* downloader.py:539, 545-547: image number i of the slideshow folder
SlideshowFilename(r, i) ==
    Path("tiktok_slideshow", uuid4(r), i, "jpg")

\* One endpoint of the loop of _try_cobalt_api: [ok, dir, why, filename].
CobaltEndpoint(dir, url, download_type, answer, resp, clock, by) ==
    LET Got(filename, got) ==
            [ok |-> got.ok, dir |-> got.dir, why |-> got.why,
             filename |-> IF got.created THEN filename ELSE NoPath]
        Fetch(filename) ==
            Got(filename, _download_file(dir, resp, filename, clock, by))
    IN  IF answer \in {"redirect", "tunnel", "picker"}
        THEN Fetch(CobaltFilename(url, download_type, answer, clock))
        ELSE [ok |-> FALSE, dir |-> dir, why |-> answer, filename |-> NoPath]

\* The three single-service adapters of TikTok and Facebook share one
\* shape: an error for an HTTP status other than 200, errors for answers
\* without a link, and the generic "... failed" after a failed transfer or
\* an exception.  `answer` is "http_error", one of the adapter's own error
\* cases, "exception" or "link".  [result, dir, why, filename]
ServiceAdapter(dir, answer, resp, filename, clock, by, api_failed, case_error, failed) ==
    LET Got(got) ==
            [result |-> IF got.ok THEN Success(filename) ELSE Error(failed),
             dir |-> got.dir, why |-> got.why,
             filename |-> IF got.created THEN filename ELSE NoPath]
    IN  IF answer = "http_error"
        THEN [result |-> Error(api_failed), dir |-> dir, why |-> answer, filename |-> NoPath]
        ELSE IF answer = "exception"
        THEN [result |-> Error(failed), dir |-> dir, why |-> answer, filename |-> NoPath]
        ELSE IF answer # "link"
        THEN [result |-> Error(case_error), dir |-> dir, why |-> answer, filename |-> NoPath]
        ELSE Got(_download_file(dir, resp, filename, clock, by))

\* CobaltDownloader._try_snaptik_api
_try_snaptik_api(dir, url, answer, resp, clock, by) ==
    ServiceAdapter(dir, answer, resp, SnapTikFilename(url), clock, by,
                   <<"S","n","a","p","T","i","k"," ","A","P","I"," ","f","a","i","l","e","d">>, MSG.NO_LINK, <<"S","n","a","p","T","i","k"," ","f","a","i","l","e","d">>)

\* CobaltDownloader._try_tikwm_api
_try_tikwm_api(dir, url, answer, resp, clock, by) ==
    ServiceAdapter(dir, answer, resp, TikWMFilename(url), clock, by,
                   <<"T","i","k","W","M"," ","A","P","I"," ","f","a","i","l","e","d">>,
                   IF answer = "error_code" THEN <<"T","i","k","W","M"," ","A","P","I"," ","e","r","r","o","r">> ELSE MSG.NO_VIDEO_URL,
                   <<"T","i","k","W","M"," ","f","a","i","l","e","d">>)

\* FacebookDownloader._try_snapsave_api
_try_snapsave_api(dir, url, answer, resp, clock, by) ==
    ServiceAdapter(dir, answer, resp, SnapSaveFilename(url), clock, by,
                   <<"S","n","a","p","S","a","v","e"," ","A","P","I"," ","f","a","i","l","e","d">>, MSG.NO_LINK, <<"S","n","a","p","S","a","v","e"," ","f","a","i","l","e","d">>)

\* FacebookDownloader._try_savefrom_api
_try_savefrom_api(dir, url, answer, resp, clock, by) ==
    ServiceAdapter(dir, answer, resp, SaveFromFilename(url), clock, by,
                   <<"S","a","v","e","F","r","o","m"," ","A","P","I"," ","f","a","i","l","e","d">>,
                   IF answer = "parse_error" THEN <<"P","a","r","s","e"," ","e","r","r","o","r">> ELSE MSG.NO_VIDEO_URL,
                   <<"S","a","v","e","F","r","o","m"," ","f","a","i","l","e","d">>)

\* FacebookDownloader._try_fbdownloader_api
_try_fbdownloader_api(dir, url, answer, resp, clock, by) ==
    ServiceAdapter(dir, answer, resp, FbDownloaderFilename(url), clock, by,
                   <<"F","b","D","o","w","n","l","o","a","d","e","r"," ","A","P","I"," ","f","a","i","l","e","d">>,
                   IF answer = "status_not_ok" THEN <<"F","b","D","o","w","n","l","o","a","d","e","r"," ","e","r","r","o","r">> ELSE MSG.NO_LINK,
                   <<"F","b","D","o","w","n","l","o","a","d","e","r"," ","f","a","i","l","e","d">>)

SnapTikAnswers ==
    {"http_error", "no_link", "exception", "link"}

(***************************************************************************)
(* Pinterest.                                                              *)
(***************************************************************************)
\* where the short link of the model redirects to
URL_PIN_PAGE ==
    <<"h","t","t","p","s",":","/","/","w","w","w",".","p","i","n","t","e","r","e","s","t",".","c","o","m","/","p","i","n","/","1","2","/","s","e","n","t","/">>
Digits ==
    {"0", "1", "2", "3", "4", "5", "6", "7", "8", "9"}

\* the end of the run of digits that starts at position i of s
RECURSIVE DigitsEnd(_, _)
DigitsEnd(s, i) ==
    IF i + 1 <= Len(s) /\ s[i + 1] \in Digits THEN DigitsEnd(s, i + 1) ELSE i

\* downloader.py:656-658: re.search(r"/pin/(\d+)", final_url) and the rewrite
CanonicalPin(final_url) ==
    LET starts == { i \in 1..Len(final_url) :
                      /\ i + 5 <= Len(final_url)
                      /\ SubSeq(final_url, i, i + 4) = <<"/","p","i","n","/">>
                      /\ final_url[i + 5] \in Digits }
    IN  IF starts = {} THEN final_url
        ELSE LET i == CHOOSE k \in starts : \A j \in starts : k <= j IN
             <<"h","t","t","p","s",":","/","/","w","w","w",".","p","i","n","t","e","r","e","s","t",".","c","o","m","/","p","i","n","/">>
                 \o SubSeq(final_url, i + 5, DigitsEnd(final_url, i + 5)) \o <<"/">>

\* a redirect resolution that has no URL to give when its request fails
ResolveRedirectGivingUp(url, request_ok) ==
    IF request_ok /\ url = URL_PINTEREST THEN URL_PIN_PAGE
    ELSE IF request_ok THEN url
    ELSE <<>>

\* Downloader._resolve_redirect: the final URL of the redirect chain, the
\* URL itself when the request fails
_resolve_redirect(url, request_ok) ==
    IF request_ok /\ url = URL_PINTEREST THEN URL_PIN_PAGE ELSE url

\* What the pin page holds: direct .mp4 URLs written plainly ("mp4"), .mp4
\* URLs with JSON-escaped slashes ("mp4_escaped"), .m3u8 manifest URLs
\* ("m3u8").
Pages ==
    SUBSET {"mp4", "mp4_escaped", "m3u8"}

\* downloader.py:677-688
mp4_candidates(html) ==
    IF "mp4" \in html THEN <<URL_CDN_MP4>>
    ELSE IF "mp4_escaped" \in html THEN <<URL_CDN_MP4>>
    ELSE <<>>

\* downloader.py:691-694
m3u8_candidates(html) ==
    IF "m3u8" \in html THEN <<URL_MANIFEST>> ELSE <<>>

\* Downloader._download_direct_mp4: [result, dir, filename]; head_ok says
\* whether the HEAD request went through.
_download_direct_mp4(dir, head_ok, resp, clock, r) ==
    LET Closed(out_path, loop, written) ==
            IF loop.ok
            THEN [result |-> Success(out_path), dir |-> written, filename |-> out_path]
            ELSE IF loop.why = "too_large"
            THEN [result |-> Error(MSG.TOO_LARGE_STREAM), dir |-> Remove(written, out_path),
                  filename |-> out_path]
            ELSE [result |-> Raised(MSG.E_CONNECT), dir |-> written, filename |-> out_path]
        Streamed(out_path, loop) ==
            Closed(out_path, loop, WriteFile(dir, out_path, loop.written, clock, r, loop.ok))
    IN  IF head_ok /\ resp.content_length # 0 /\ resp.content_length > MAX_FILE_SIZE
        THEN [result |-> Error(MSG.TOO_LARGE_PROBE), dir |-> dir, filename |-> NoPath]
        ELSE IF resp.status = 0
        THEN [result |-> Raised(MSG.E_CONNECT), dir |-> dir, filename |-> NoPath]
        ELSE IF resp.status >= 400
        THEN [result |-> Error(MSG.HTTP_404), dir |-> dir, filename |-> NoPath]
        ELSE Streamed(DirectFilename(r), DirectChunkLoop(resp.body, resp.drop))

(***************************************************************************)
(* The metadata probe of _check_size_sync.                                 *)
(***************************************************************************)
\* what ydl.extract_info(url, download=False) gives: metadata with a
\* filesize (0: none), nothing, an empty playlist, an exception, or the job
\* cannot run at all
Probe(kind, filesize) ==
    [kind |-> kind, filesize |-> filesize]

Probes ==
    { Probe("info", sz) : sz \in {0, SmallBody, MAX_FILE_SIZE, BigBody} }
    \cup { Probe(k, 0) : k \in {"noinfo", "no_entries", "raise", "no_run"} }

\* a size check that lets every probe with metadata pass
CheckSizeIgnoringSize(probe) ==
    IF probe.kind = "raise" THEN [status |-> "ok", message |-> <<>>]
    ELSE IF probe.kind = "noinfo" THEN [status |-> "error", message |-> MSG.CANNOT_EXTRACT]
    ELSE IF probe.kind = "no_entries" THEN [status |-> "error", message |-> MSG.NO_VIDEOS]
    ELSE [status |-> "ok", message |-> <<>>]

\* Downloader._check_size_sync
_check_size_sync(probe) ==
    IF probe.kind = "raise" THEN [status |-> "ok", message |-> <<>>]
    ELSE IF probe.kind = "noinfo" THEN [status |-> "error", message |-> MSG.CANNOT_EXTRACT]
    ELSE IF probe.kind = "no_entries" THEN [status |-> "error", message |-> MSG.NO_VIDEOS]
    ELSE IF probe.filesize # 0 /\ probe.filesize > MAX_FILE_SIZE
    THEN [status |-> "error", message |-> MSG.TOO_LARGE_PROBE]
    ELSE [status |-> "ok", message |-> <<>>]

(***************************************************************************)
(* The state.                                                              *)
(*   now      the clock (loop.time(), time.time()), in seconds             *)
(*   dir      the download directory                                       *)
(*   request  the arguments of each download() call                        *)
(*   pc       where each call stands (the await it is suspended at)        *)
(*   loc      the local variables of each call                             *)
(*   result   what each call returned                                      *)
(* and, as history of each call:                                           *)
(*   calls        the providers it called, in order                        *)
(*   perm         the first failure of a permanent class: the position in  *)
(*                calls of the provider that failed so, and the class      *)
(*   wrote        the files it created, with the provider that did         *)
(*   first_error  the message of the first adapter that failed             *)
(*   page         what the fetch of the Pinterest page gave                *)
(***************************************************************************)
VARIABLES now, dir, request, pc, loc, result, calls, perm, wrote, first_error, page

vars ==
    <<now, dir, request, pc, loc, result, calls, perm, wrote, first_error, page>>

Requests ==
    1..NumRequests

Idle ==
    [url |-> <<>>, type |-> ""]

Inputs ==
    { [url |-> RequestUrls[i], type |-> t] : i \in 1..Len(RequestUrls), t \in MediaKinds }

Locals ==
    [endpoint |-> 1, attempt |-> 1, url |-> <<>>, type |-> "", context |-> "",
     saved |-> NoResult, final_url |-> <<>>, probes |-> <<>>, last |-> NoResult,
     slept |-> <<>>, size_probe |-> [kind |-> "", over |-> FALSE], ran |-> <<>>]

NoPerm ==
    [at |-> 0, class |-> ""]

PermanentClasses ==
    {"too_large", "unavailable_or_private", "age_restricted", "region_blocked"}

\* the class of the taxonomy a failure message of the engine stands for
\* (downloader.py:366-376, 477-504)
ClassOfMessage(message) ==
    IF message \in {MSG.TOO_LARGE, MSG.TOO_LARGE_PROBE, MSG.TOO_LARGE_STREAM} THEN "too_large"
    ELSE IF message = MSG.UNAVAILABLE THEN "unavailable_or_private"
    ELSE IF message = MSG.AGE THEN "age_restricted"
    ELSE IF message = MSG.FORBIDDEN THEN "region_blocked"
    ELSE IF message = MSG.RATE THEN "rate_limited"
    ELSE IF message = MSG.YOUTUBE_CHANGED THEN "extractor_broken"
    ELSE "unknown"

\* the calls of `requests` stand at `at`, nothing has happened yet
StartedAt(requests, at) ==
    /\ now = 0
    /\ dir = <<>>
    /\ request = requests
    /\ pc = [r \in Requests |-> IF requests[r] = Idle THEN "idle" ELSE at]
    /\ loc = [r \in Requests |-> Locals]
    /\ result = [r \in Requests |-> NoResult]
    /\ calls = [r \in Requests |-> <<>>]
    /\ perm = [r \in Requests |-> NoPerm]
    /\ wrote = [r \in Requests |-> {}]
    /\ first_error = [r \in Requests |-> <<>>]
    /\ page = [r \in Requests |-> [fetched |-> "", html |-> {}]]

\* one download() call, for any URL and media kind
Init ==
    \E input \in Inputs :
        StartedAt([r \in Requests |-> IF r = 1 THEN input ELSE Idle], "start")

(***************************************************************************)
(* How a step of a call ends.  `names` are the providers the step called.  *)
(***************************************************************************)
Called(r, names) ==
    calls' = [calls EXCEPT ![r] = @ \o names]

\* the history of a provider's outcome: `why` its failure class ("" none),
\* `files` the paths it created, `message` its error message (<<>> none)
Outcome(r, name, position, why, files, message) ==
    /\ perm' = IF perm[r].at = 0 /\ why \in PermanentClasses
               THEN [perm EXCEPT ![r] = [at |-> position, class |-> why]]
               ELSE perm
    /\ wrote' = [wrote EXCEPT ![r] = @ \cup { [by |-> name, path |-> f] : f \in files \ {NoPath} }]
    /\ first_error' = IF first_error[r] = <<>> /\ message # <<>> /\ name # "engine"
                      THEN [first_error EXCEPT ![r] = message]
                      ELSE first_error

\* go on to the next await of the same call
Goto(r, next, names) ==
    /\ pc' = [pc EXCEPT ![r] = next]
    /\ Called(r, names)
    /\ UNCHANGED <<loc, result>>

\* download() returns res, or ends with an exception when res is Raised
Return(r, res, names) ==
    /\ pc' = [pc EXCEPT ![r] = "done"]
    /\ result' = [result EXCEPT ![r] = res]
    /\ Called(r, names)
    /\ UNCHANGED loc

\* the first position >= from at which one of the characters of `stops`
\* stands in s, Len(s) + 1 when there is none
FirstOf(s, from, stops) ==
    LET hits == { i \in from..Len(s) : s[i] \in stops } IN
    IF hits = {} THEN Len(s) + 1 ELSE CHOOSE i \in hits : \A j \in hits : i <= j

StartsWith(s, prefix) ==
    Len(s) >= Len(prefix) /\ SubSeq(s, 1, Len(prefix)) = prefix

EndsWith(s, suffix) ==
    Len(s) >= Len(suffix) /\ SubSeq(s, Len(s) - Len(suffix) + 1, Len(s)) = suffix

S_shorts ==
    <<"/","s","h","o","r","t","s","/">>

\* urllib.parse.urlparse, as far as _normalize_youtube_url and validate_url
\* read it: [scheme, netloc, hostname, path, query] of
\* scheme://netloc/path?query#fragment
urlparse(url) ==
    LET \* the last position of character c in s, 0 when there is none
        LastOf(s, c) ==
            LET hits == { i \in 1..Len(s) : s[i] = c } IN
            IF hits = {} THEN 0 ELSE CHOOSE i \in hits : \A j \in hits : i >= j
        Hostname(hostinfo) ==
            Lower(SubSeq(hostinfo, 1, FirstOf(hostinfo, 1, {":"}) - 1))
        Parts(netloc, path_from, path_to, query_to) ==
            [scheme |-> Lower(SubSeq(url, 1, FirstOf(url, 1, {":"}) - 1)),
             netloc |-> netloc,
             hostname |-> Hostname(SubSeq(netloc, LastOf(netloc, "@") + 1, Len(netloc))),
             path |-> SubSeq(url, path_from, path_to),
             query |-> IF path_to + 1 <= Len(url) /\ url[path_to + 1] = "?"
                       THEN SubSeq(url, path_to + 2, query_to) ELSE <<>>]
        Rest(netloc, path_from) ==
            Parts(netloc, path_from, FirstOf(url, path_from, {"?", "#"}) - 1,
                  FirstOf(url, path_from, {"#"}) - 1)
        Netloc(net_from, net_to) ==
            Rest(SubSeq(url, net_from, net_to), net_to + 1)
        After(colon) ==
            IF colon + 2 <= Len(url) /\ SubSeq(url, colon, colon + 2) = <<":","/","/">>
            THEN Netloc(colon + 3, FirstOf(url, colon + 3, {"/", "?", "#"}) - 1)
            ELSE Rest(<<>>, colon + 1)
    IN  After(FirstOf(url, 1, {":"}))

\* parse_qs(query).get("si", [None])[0]: the value of the first si=value
\* pair whose value is not empty, <<>> when there is none
RECURSIVE FirstSi(_)
FirstSi(query) ==
    IF query = <<>> THEN <<>>
    ELSE LET stop == FirstOf(query, 1, {"&"})
             pair == SubSeq(query, 1, stop - 1)
             rest == SubSeq(query, stop + 1, Len(query))
         IN  IF StartsWith(pair, <<"s","i","=">>) /\ Len(pair) > Len(<<"s","i","=">>)
             THEN SubSeq(pair, Len(<<"s","i","=">>) + 1, Len(pair))
             ELSE FirstSi(rest)

\* a rewrite that leaves the video under the /shorts/ path
NormalizeKeepingShortsPath(url) ==
    LET Watch(video_id, si) ==
            IF video_id # <<>>
            THEN <<"h","t","t","p","s",":","/","/","w","w","w",".","y","o","u","t","u","b","e",".","c","o","m","/","s","h","o","r","t","s","/","w","a","t","c","h","?","v","=">> \o video_id \o (IF si # <<>> THEN <<"&","s","i","=">> \o si ELSE <<>>)
            ELSE url
        Shorts(after, query) ==
            Watch(SubSeq(after, 1, FirstOf(after, 1, {"/"}) - 1), FirstSi(query))
        Parsed(parsed) ==
            IF EndsWith(parsed.hostname, <<"y","o","u","t","u","b","e",".","c","o","m">>) /\ StartsWith(parsed.path, S_shorts)
            THEN Shorts(SubSeq(parsed.path, Len(S_shorts) + 1, Len(parsed.path)), parsed.query)
            ELSE url
    IN  Parsed(urlparse(url))

\* Downloader._normalize_youtube_url
_normalize_youtube_url(url) ==
    LET Watch(video_id, si) ==
            IF video_id # <<>>
            THEN <<"h","t","t","p","s",":","/","/","w","w","w",".","y","o","u","t","u","b","e",".","c","o","m","/","w","a","t","c","h","?","v","=">> \o video_id \o (IF si # <<>> THEN <<"&","s","i","=">> \o si ELSE <<>>)
            ELSE url
        Shorts(after, query) ==
            Watch(SubSeq(after, 1, FirstOf(after, 1, {"/"}) - 1), FirstSi(query))
        Parsed(parsed) ==
            IF EndsWith(parsed.hostname, <<"y","o","u","t","u","b","e",".","c","o","m">>) /\ StartsWith(parsed.path, S_shorts)
            THEN Shorts(SubSeq(parsed.path, Len(S_shorts) + 1, Len(parsed.path)), parsed.query)
            ELSE url
    IN  Parsed(urlparse(url))

\* an engine that is handed the URL as the request gave it
EnterEngineWithoutNormalizing(r, url, type, context, saved, names) ==
    LET platform == PlatformOf[url]
        engine_url == url
        skip_size_check == (type = "audio") \/ (platform = "tiktok")
    IN  /\ pc' = [pc EXCEPT ![r] =
                    IF platform = "tiktok" /\ type = "video" THEN "probe"
                    ELSE IF skip_size_check THEN "attempt"
                    ELSE "size_check"]
        /\ loc' = [loc EXCEPT ![r] = [@ EXCEPT !.url = engine_url, !.type = type,
                                               !.context = context, !.saved = saved,
                                               !.attempt = 1, !.probes = <<>>,
                                               !.last = NoResult, !.slept = <<>>,
                                               !.size_probe = [kind |-> "", over |-> FALSE],
                                               !.ran = IF pc[r] = "size_check"
                                                       THEN @ \o <<"size">> ELSE @]]
        /\ Called(r, names \o <<"engine">>)
        /\ UNCHANGED result

\* download_with_ytdlp is entered (downloader.py:721-759): everything up to
\* its first await.  `context` is the try block of download() the call is
\* made in ("tiktok", "facebook", or "" for a call outside any try), `saved`
\* the Facebook adapters' result that download() holds meanwhile.  `ran`
\* lists what the engine has run for the request, over all its calls: a
\* call made because the size probe raised finds that probe in it.
EnterEngine(r, url, type, context, saved, names) ==
    LET platform == PlatformOf[url]
        engine_url == IF platform = "youtube" THEN _normalize_youtube_url(url) ELSE url
        skip_size_check == (type = "audio") \/ (platform = "tiktok")
    IN  /\ pc' = [pc EXCEPT ![r] =
                    IF platform = "tiktok" /\ type = "video" THEN "probe"
                    ELSE IF skip_size_check THEN "attempt"
                    ELSE "size_check"]
        /\ loc' = [loc EXCEPT ![r] = [@ EXCEPT !.url = engine_url, !.type = type,
                                               !.context = context, !.saved = saved,
                                               !.attempt = 1, !.probes = <<>>,
                                               !.last = NoResult, !.slept = <<>>,
                                               !.size_probe = [kind |-> "", over |-> FALSE],
                                               !.ran = IF pc[r] = "size_check"
                                                       THEN @ \o <<"size">> ELSE @]]
        /\ Called(r, names \o <<"engine">>)
        /\ UNCHANGED result

\* download_with_ytdlp goes on to its next await with its locals changed
EngineGoto(r, next, locals) ==
    /\ pc' = [pc EXCEPT ![r] = next]
    /\ loc' = [loc EXCEPT ![r] = locals]
    /\ UNCHANGED <<result, calls>>

\* download_with_ytdlp returns res to download() (downloader.py:840, 850,
\* 868-869, 887 and 696), which returns it or, in the Facebook branch, the
\* adapters' result
EngineReturn(r, res, locals) ==
    /\ pc' = [pc EXCEPT ![r] = "done"]
    /\ result' = [result EXCEPT ![r] =
                     IF loc[r].context = "facebook" /\ res.status # "success"
                     THEN loc[r].saved ELSE res]
    /\ loc' = [loc EXCEPT ![r] = locals]
    /\ UNCHANGED calls

\* download_with_ytdlp raises: inside the try of the TikTok or the Facebook
\* branch the handler calls it once more (downloader.py:854-856, 872-874),
\* anywhere else the exception leaves download()
EngineRaise(r, text) ==
    IF loc[r].context \in {"tiktok", "facebook"}
    THEN EnterEngine(r, request[r].url, request[r].type, "", NoResult, <<>>)
    ELSE Return(r, Raised(text), <<>>)

(***************************************************************************)
(* download(): the synchronous head of the call, up to its first await.    *)
(***************************************************************************)
download(r) ==
    /\ pc[r] = "start"
    /\ LET url == request[r].url
           type == request[r].type
           platform == PlatformOf[url]
       IN  IF platform = "tiktok"
           THEN IF type = "audio"
                THEN EnterEngine(r, url, type, "", NoResult, <<>>)
                ELSE Goto(r, "cobalt", <<>>)
           ELSE IF platform = "facebook"
           THEN IF type = "audio"
                THEN EnterEngine(r, url, type, "facebook", Error(MSG.FB_AUDIO), <<>>)
                ELSE Goto(r, "snapsave", <<>>)
           ELSE IF platform = "pinterest"
           THEN IF type # "video"
                THEN Return(r, Error(MSG.PIN_VIDEO_ONLY), <<>>)
                ELSE Goto(r, "resolve", <<>>)
           ELSE EnterEngine(r, url, type, "", NoResult, <<>>)
    /\ UNCHANGED <<now, dir, request, perm, wrote, first_error, page>>

(***************************************************************************)
(* TikTok: CobaltDownloader.download.                                      *)
(***************************************************************************)
\* one endpoint of _try_cobalt_api's loop; after the last one
\* CobaltDownloader.download goes on (cobalt_api.py:253-267)
TryCobalt(r) ==
    /\ pc[r] = "cobalt"
    /\ \E answer \in {"http_error", "error", "no_url", "redirect", "tunnel", "picker", "timeout"},
          resp \in Responses :
        \E name \in {COBALT_ENDPOINTS[loc[r].endpoint]},
           last \in {loc[r].endpoint = Len(COBALT_ENDPOINTS)},
           out \in {CobaltEndpoint(dir, request[r].url, request[r].type, answer, resp, now, r)} :
            /\ dir' = out.dir
            /\ Outcome(r, name, Len(calls[r]) + 1, IF out.ok THEN "" ELSE out.why,
                       {out.filename},
                       IF ~out.ok /\ last THEN MSG.COBALT_FAILED ELSE <<>>)
            /\ IF out.ok THEN Return(r, Success(out.filename), <<name>>)
               ELSE IF ~last
               THEN /\ loc' = [loc EXCEPT ![r].endpoint = @ + 1]
                    /\ Called(r, <<name>>)
                    /\ UNCHANGED <<pc, result>>
               ELSE IF request[r].type = "audio"
               THEN EnterEngine(r, request[r].url, request[r].type, "tiktok", NoResult, <<name>>)
               ELSE Goto(r, "snaptik", <<name>>)
    /\ UNCHANGED <<now, request, page>>

\* SnapTik's failure sends the call to the engine, past TikWM
TrySnapTikThenEngine(r) ==
    /\ pc[r] = "snaptik"
    /\ \E answer \in SnapTikAnswers, resp \in Responses :
        \E out \in {_try_snaptik_api(dir, request[r].url, answer, resp, now, r)} :
            /\ dir' = out.dir
            /\ Outcome(r, "snaptik", Len(calls[r]) + 1, out.why, {out.filename},
                       out.result.message)
            /\ IF out.result.status = "success"
               THEN Return(r, out.result, <<"snaptik">>)
               ELSE EnterEngine(r, request[r].url, request[r].type, "tiktok", NoResult,
                                <<"snaptik">>)
    /\ UNCHANGED <<now, request, page>>

TrySnapTik(r) ==
    /\ pc[r] = "snaptik"
    /\ \E answer \in SnapTikAnswers, resp \in Responses :
        \E out \in {_try_snaptik_api(dir, request[r].url, answer, resp, now, r)} :
            /\ dir' = out.dir
            /\ Outcome(r, "snaptik", Len(calls[r]) + 1, out.why, {out.filename},
                       out.result.message)
            /\ IF out.result.status = "success"
               THEN Return(r, out.result, <<"snaptik">>)
               ELSE Goto(r, "tikwm", <<"snaptik">>)
    /\ UNCHANGED <<now, request, page>>

\* after TikWM CobaltDownloader.download gives up and download() falls back
\* to the engine (cobalt_api.py:274-284, downloader.py:845-850)
TryTikWM(r) ==
    /\ pc[r] = "tikwm"
    /\ \E answer \in {"http_error", "error_code", "no_url", "exception", "link"},
          resp \in Responses :
        \E out \in {_try_tikwm_api(dir, request[r].url, answer, resp, now, r)} :
            /\ dir' = out.dir
            /\ Outcome(r, "tikwm", Len(calls[r]) + 1, out.why, {out.filename},
                       out.result.message)
            /\ IF out.result.status = "success"
               THEN Return(r, out.result, <<"tikwm">>)
               ELSE EnterEngine(r, request[r].url, request[r].type, "tiktok", NoResult,
                                <<"tikwm">>)
    /\ UNCHANGED <<now, request, page>>

(***************************************************************************)
(* Facebook: FacebookDownloader.download.                                  *)
(***************************************************************************)
TrySnapSave(r) ==
    /\ pc[r] = "snapsave"
    /\ \E answer \in {"http_error", "no_link", "exception", "link"},
          resp \in Responses :
        \E out \in {_try_snapsave_api(dir, request[r].url, answer, resp, now, r)} :
            /\ dir' = out.dir
            /\ Outcome(r, "snapsave", Len(calls[r]) + 1, out.why, {out.filename},
                       out.result.message)
            /\ IF out.result.status = "success"
               THEN Return(r, out.result, <<"snapsave">>)
               ELSE Goto(r, "savefrom", <<"snapsave">>)
    /\ UNCHANGED <<now, request, page>>

TrySaveFrom(r) ==
    /\ pc[r] = "savefrom"
    /\ \E answer \in {"http_error", "parse_error", "no_url", "exception", "link"},
          resp \in Responses :
        \E out \in {_try_savefrom_api(dir, request[r].url, answer, resp, now, r)} :
            /\ dir' = out.dir
            /\ Outcome(r, "savefrom", Len(calls[r]) + 1, out.why, {out.filename},
                       out.result.message)
            /\ IF out.result.status = "success"
               THEN Return(r, out.result, <<"savefrom">>)
               ELSE Goto(r, "fbdownloader", <<"savefrom">>)
    /\ UNCHANGED <<now, request, page>>

\* after FbDownloader FacebookDownloader.download returns its summary and
\* download() falls back to the engine, keeping that result
\* (facebook_api.py:288-305, downloader.py:863-869)
TryFbDownloader(r) ==
    /\ pc[r] = "fbdownloader"
    /\ \E answer \in {"http_error", "status_not_ok", "no_link", "exception", "link"},
          resp \in Responses :
        \E out \in {_try_fbdownloader_api(dir, request[r].url, answer, resp, now, r)} :
            /\ dir' = out.dir
            /\ Outcome(r, "fbdownloader", Len(calls[r]) + 1, out.why, {out.filename},
                       out.result.message)
            /\ IF out.result.status = "success"
               THEN Return(r, out.result, <<"fbdownloader">>)
               ELSE EnterEngine(r, request[r].url, request[r].type, "facebook",
                                Error(MSG.FB_ALL_FAILED), <<"fbdownloader">>)
    /\ UNCHANGED <<now, request, page>>

(***************************************************************************)
(* Pinterest: Downloader._download_pinterest.                              *)
(***************************************************************************)
ResolveRedirect(r) ==
    /\ pc[r] = "resolve"
    /\ \E request_ok \in BOOLEAN :
        loc' = [loc EXCEPT ![r].final_url =
                    CanonicalPin(_resolve_redirect(request[r].url, request_ok))]
    /\ pc' = [pc EXCEPT ![r] = "page"]
    /\ UNCHANGED <<now, dir, request, result, calls, perm, wrote, first_error, page>>

\* downloader.py:667-705: the page is fetched and searched
FetchPage(r) ==
    /\ pc[r] = "page"
    /\ \E fetched \in BOOLEAN, html \in Pages :
        /\ ~fetched => html = {}
        /\ page' = [page EXCEPT ![r] =
                      [fetched |-> IF fetched THEN "yes" ELSE "no", html |-> html]]
        /\ IF ~fetched
           THEN Return(r, Error(MSG.PIN_FETCH_FAILED_ \o MSG.E_CONNECT), <<>>)
           ELSE IF mp4_candidates(html) # <<>>
           THEN Goto(r, "direct", <<>>)
           ELSE IF m3u8_candidates(html) # <<>>
           THEN EnterEngine(r, m3u8_candidates(html)[1], request[r].type, "", NoResult, <<>>)
           ELSE Return(r, Error(MSG.PIN_BLOCKING), <<>>)
    /\ UNCHANGED <<now, dir, request, perm, wrote, first_error>>

\* downloader.py:705 and 879-882: the direct fetch and the return of its
\* result; an exception of the GET leaves download()
DirectFetch(r) ==
    /\ pc[r] = "direct"
    /\ \E head_ok \in BOOLEAN, resp \in Responses :
        \E out \in {_download_direct_mp4(dir, head_ok, resp, now, r)} :
            /\ dir' = out.dir
            /\ Outcome(r, "direct", Len(calls[r]) + 1,
                       IF out.result.status = "error"
                       THEN ClassOfMessage(out.result.message) ELSE "",
                       {out.filename},
                       IF out.result.status = "error" THEN out.result.message ELSE <<>>)
            /\ Return(r, out.result, <<"direct">>)
    /\ UNCHANGED <<now, request, page>>

(***************************************************************************)
(* The engine: Downloader.download_with_ytdlp.                             *)
(***************************************************************************)
\* a probe phase that always goes on to the size check
AfterProbeCheckingSize(r) ==
    "size_check"

\* downloader.py:750-759: where the call goes after the slideshow probe
AfterProbe(r) ==
    IF (loc[r].type = "audio") \/ (PlatformOf[loc[r].url] = "tiktok")
    THEN "attempt" ELSE "size_check"

\* downloader.py:729-745: the probe for a TikTok photo post; whatever goes
\* wrong in it is logged and the download goes on
SlideshowProbe(r) ==
    /\ pc[r] = "probe"
    /\ \E info \in {"slideshow", "video", "raise"} :
        EngineGoto(r, IF info = "slideshow" THEN "slideshow" ELSE AfterProbe(r),
                   [loc[r] EXCEPT !.probes = @ \o <<"slideshow">>,
                                  !.ran = @ \o <<"slideshow">>])
    /\ UNCHANGED <<now, dir, request, perm, wrote, first_error, page>>

\* the directory after images 1..n were written to the slideshow folder
RECURSIVE WriteImages(_, _, _, _)
WriteImages(d, r, n, clock) ==
    IF n = 0 THEN d
    ELSE WriteFile(WriteImages(d, r, n - 1, clock), SlideshowFilename(r, n),
                   SmallBody, clock, r, TRUE)

\* a slideshow download that reports success whatever it found
SlideshowDownloadAlwaysSucceeding(r) ==
    /\ pc[r] = "slideshow"
    /\ \E n \in 0..MaxImages, raises \in BOOLEAN :
        LET files == [i \in 1..n |-> SlideshowFilename(r, i)] IN
            /\ dir' = WriteImages(dir, r, n, now)
            /\ Outcome(r, "engine", Len(calls[r]), "", { files[i] : i \in 1..n }, <<>>)
            /\ IF raises THEN EngineGoto(r, AfterProbe(r), loc[r])
               ELSE EngineReturn(r, Slideshow(files), loc[r])
    /\ UNCHANGED <<now, request, page>>

\* Downloader._download_tiktok_slideshow_sync, run from downloader.py:738:
\* yt-dlp writes n images and returns, or raises after writing them
SlideshowDownload(r) ==
    /\ pc[r] = "slideshow"
    /\ \E n \in 0..MaxImages, raises \in BOOLEAN :
        LET files == [i \in 1..n |-> SlideshowFilename(r, i)] IN
            /\ dir' = WriteImages(dir, r, n, now)
            /\ Outcome(r, "engine", Len(calls[r]), "", { files[i] : i \in 1..n }, <<>>)
            /\ IF raises THEN EngineGoto(r, AfterProbe(r), loc[r])
               ELSE IF files = <<>> THEN EngineReturn(r, Error(MSG.NO_IMAGES), loc[r])
               ELSE EngineReturn(r, Slideshow(files), loc[r])
    /\ UNCHANGED <<now, request, page>>

\* downloader.py:752-759
SizeCheck(r) ==
    /\ pc[r] = "size_check"
    /\ \E probe \in Probes :
        IF probe.kind = "no_run"
        THEN /\ EngineRaise(r, MSG.E_CONNECT)
             /\ UNCHANGED <<perm, wrote, first_error>>
        ELSE LET size_check == _check_size_sync(probe)
                 probed == [loc[r] EXCEPT
                              !.probes = @ \o <<"size">>,
                              !.ran = @ \o <<"size">>,
                              !.size_probe = [kind |-> probe.kind,
                                              over |-> probe.filesize > MAX_FILE_SIZE]]
             IN
             IF size_check.status = "error"
             THEN /\ Outcome(r, "engine", Len(calls[r]),
                             ClassOfMessage(size_check.message), {}, size_check.message)
                  /\ EngineReturn(r, Error(size_check.message), probed)
             ELSE /\ EngineGoto(r, "attempt", probed)
                  /\ UNCHANGED <<perm, wrote, first_error>>
    /\ UNCHANGED <<now, dir, request, page>>

\* downloader.py:56-65: the dictionaries of the class attribute, the outer
\* one holding references to the inner ones
EXTRACTOR_ARGS ==
    [EXTRACTOR_ARGS |-> [youtube |-> [ref |-> "youtube"],
                         instagram |-> [ref |-> "instagram"]],
     youtube |-> [player_client |-> <<"tv", "android_sdkless", "web_safari", "ios", "android">>,
                  skip |-> <<"dash", "hls">>],
     instagram |-> [api_hostname |-> "i.instagram.com"]]

\* what yt-dlp reads through an option set while the dictionaries of the
\* class are `shared`
Seen(shared, opts) ==
    LET extractor_args ==
            IF opts.extractor_args.ref = "" THEN opts.extractor_args
            ELSE shared.EXTRACTOR_ARGS
        youtube ==
            IF extractor_args.youtube.ref = "" THEN extractor_args.youtube
            ELSE shared.youtube
    IN  [user_agent |-> opts.user_agent,
         player_client |-> youtube.player_client,
         skip |-> youtube.skip]

\* a rotation that writes the client list into the dictionary the option
\* set refers to
RotateInPlace(shared, opts, platform, attempt) ==
    LET clients == <<<<"tv", "android_sdkless", "web_safari">>,
                     <<"android_sdkless", "tv", "ios">>,
                     <<"ios", "android_sdkless", "tv">>>>
    IN  [opts |-> [opts EXCEPT !.user_agent = ((attempt - 1) % 3) + 1],
         shared |-> IF platform = "youtube"
                    THEN [shared EXCEPT !.youtube.player_client =
                             clients[((attempt - 1) % Len(clients)) + 1]]
                    ELSE shared]

\* downloader.py:765-779: the User-Agent is written into the http_headers
\* _get_opts has just built; dict(...) makes a new dictionary with the
\* entries of the old one, so the client list is written into copies
Rotate(shared, opts, platform, attempt) ==
    LET clients == <<<<"tv", "android_sdkless", "web_safari">>,
                     <<"android_sdkless", "tv", "ios">>,
                     <<"ios", "android_sdkless", "tv">>>>
        extractor_args ==
            IF opts.extractor_args.ref = "" THEN opts.extractor_args
            ELSE [ref |-> "", youtube |-> shared.EXTRACTOR_ARGS.youtube,
                  instagram |-> shared.EXTRACTOR_ARGS.instagram]
        yt_args ==
            IF extractor_args.youtube.ref = "" THEN extractor_args.youtube
            ELSE [ref |-> "", player_client |-> shared.youtube.player_client,
                  skip |-> shared.youtube.skip]
        rotated ==
            [extractor_args EXCEPT !.youtube =
                [yt_args EXCEPT !.player_client =
                    clients[((attempt - 1) % Len(clients)) + 1]]]
    IN  [opts |-> [opts EXCEPT !.user_agent = ((attempt - 1) % 3) + 1,
                               !.extractor_args =
                                   IF platform = "youtube" THEN rotated ELSE @],
         shared |-> shared]

\* downloader.py:763-779: the option set of an attempt
AttemptOpts(type, url, attempt) ==
    Rotate(EXTRACTOR_ARGS, _get_opts(type, url, FALSE), PlatformOf[url], attempt).opts

\* one pass of the retry loop (downloader.py:762-818) up to its sleep
Attempt(r) ==
    /\ pc[r] = "attempt"
    /\ \E o \in Extractions :
        \E url \in {loc[r].url}, attempt \in {loc[r].attempt} :
        \E opts \in {AttemptOpts(loc[r].type, url, attempt)} :
        \E ran \in {YtdlpDir(dir, url, opts, o, now, r)} :
        \E res \in {_download_sync(ran, url, opts, o, now)} :
        \E raised \in {[loc[r] EXCEPT !.last = Raised(MSG.E_CONNECT),
                                       !.ran = @ \o <<"attempt">>]},
           returned \in {[loc[r] EXCEPT !.last = res, !.ran = @ \o <<"attempt">>]} :
            IF o.kind = "no_run"
            THEN /\ IF attempt = max_retries
                    THEN EngineReturn(r, Error(MSG.SYSTEM_ERROR), raised)
                    ELSE EngineGoto(r, "sleep", raised)
                 /\ UNCHANGED <<dir, perm, wrote, first_error>>
            ELSE /\ dir' = ran
                 /\ Outcome(r, "engine", Len(calls[r]),
                            IF res.status = "error" THEN ClassOfMessage(res.message) ELSE "",
                            IF YtdlpWrites(opts, o) THEN {EnginePath(url, o.actual_ext)} ELSE {},
                            <<>>)
                 /\ IF res.status = "success" THEN EngineReturn(r, res, returned)
                    ELSE IF IsNonRetryable[res.message] THEN EngineReturn(r, res, returned)
                    ELSE IF attempt < max_retries THEN EngineGoto(r, "sleep", returned)
                    ELSE EngineReturn(r, Error(MSG.FAILED_AFTER), returned)
    /\ UNCHANGED <<now, request, page>>

\* a backoff of the same length after every attempt
ConstantDelay(attempt) ==
    2

\* min(2 ** attempt, 8) of downloader.py:812
BackoffDelay(attempt) ==
    Min(2 ^ attempt, 8)

\* downloader.py:812-813: asyncio.sleep(min(2 ** attempt, 8)), then the
\* next pass, whose attempt has no result yet; the clock of the model stops
\* at MaxTime
Backoff(r) ==
    /\ pc[r] = "sleep"
    /\ now' = Min(now + BackoffDelay(loc[r].attempt), MaxTime)
    /\ loc' = [loc EXCEPT ![r] = [@ EXCEPT !.attempt = @ + 1, !.last = NoResult,
                                           !.slept = @ \o <<BackoffDelay(loc[r].attempt)>>]]
    /\ pc' = [pc EXCEPT ![r] = "attempt"]
    /\ UNCHANGED <<dir, request, result, calls, perm, wrote, first_error, page>>

Step(r) ==
    \/ download(r)
    \/ TryCobalt(r)
    \/ TrySnapTik(r)
    \/ TryTikWM(r)
    \/ TrySnapSave(r)
    \/ TrySaveFrom(r)
    \/ TryFbDownloader(r)
    \/ ResolveRedirect(r)
    \/ FetchPage(r)
    \/ DirectFetch(r)
    \/ SlideshowProbe(r)
    \/ SlideshowDownload(r)
    \/ SizeCheck(r)
    \/ Attempt(r)
    \/ Backoff(r)

Next ==
    \E r \in Requests : Step(r)

Spec ==
    Init /\ [][Next]_vars

(***************************************************************************)
(* Properties of download().                                               *)
(***************************************************************************)
\* call r is a download(url, type) with url of `platform` and type in `types`
On(r, platform, types) ==
    /\ pc[r] # "idle"
    /\ PlatformOf[request[r].url] = platform
    /\ request[r].type \in types

\* download() has returned to its caller, or left it with an exception
Returned(r) ==
    pc[r] = "done"

\* C1: download() never lets an exception reach its caller: whatever the
\* URL, the media kind and the outcomes of the network and extractor
\* calls, a call that ended has returned status "success" or "error".
C1_NeverRaises ==
    \A r \in Requests : Returned(r) => result[r].status \in {"success", "error"}

\* C2: once a provider of the chain failed with a permanent class, no
\* further provider is attempted and the Failure returned carries that
\* class.
C2_PermanentIsFinal ==
    \A r \in Requests :
        perm[r].at # 0 =>
            /\ Len(calls[r]) = perm[r].at
            /\ Returned(r) =>
                /\ result[r].status = "error"
                /\ ClassOfMessage(result[r].message) = perm[r].class

\* C3: on TikTok video and Facebook, when the providers before the last one
\* called failed transiently and the last one succeeded, the Success names
\* exactly one path, and that path was written by the succeeding provider.
C3_SuccessIsTheLastProvidersFile ==
    \A r \in Requests :
        ( /\ On(r, "tiktok", {"video"}) \/ On(r, "facebook", {"video"})
          /\ Returned(r)
          /\ result[r].status = "success"
          /\ result[r].media_kind # "slideshow"
          /\ perm[r].at = 0 )
        => /\ result[r].file_path # NoPath
           /\ result[r].file_paths = <<>>
           /\ [by |-> calls[r][Len(calls[r])], path |-> result[r].file_path] \in wrote[r]

\* C4: on Facebook, when every adapter failed and the engine failed too,
\* the Failure carries the message of the first adapter tried.
C4_FirstAdapterMessage ==
    \A r \in Requests :
        ( /\ On(r, "facebook", MediaKinds)
          /\ Returned(r)
          /\ result[r].status = "error"
          /\ first_error[r] # <<>> )
        => result[r].message = first_error[r]

\* the providers of a TikTok video in the order of CobaltDownloader.download
\* and of the TikTok branch of download()
TikTokOrder ==
    COBALT_ENDPOINTS \o <<"snaptik", "tikwm", "engine">>

\* C5: for a TikTok video the providers are called in the order Cobalt
\* endpoints, SnapTik, TikWM, engine, the engine only after all adapters
\* failed; a call that ends before the engine ends with an adapter's
\* Success, and an adapter's completed transfer is returned at once.
C5_TikTokVideoOrder ==
    \A r \in Requests :
        On(r, "tiktok", {"video"}) =>
            /\ Len(calls[r]) <= Len(TikTokOrder)
            /\ calls[r] = SubSeq(TikTokOrder, 1, Len(calls[r]))
            /\ (Returned(r) /\ Len(calls[r]) < Len(TikTokOrder)) =>
                    result[r].status = "success"
            /\ \A i \in 1..Len(dir) :
                (dir[i].whole /\ dir[i].path.kind \in {"tiktok", "tiktok_snaptik", "tiktok_tikwm"}) =>
                    /\ Returned(r)
                    /\ result[r] = Success(dir[i].path)
                    /\ calls[r][Len(calls[r])] # "engine"

\* C5's case: the engine ran for a TikTok video after every adapter failed
C5_EngineAfterAllAdapters ==
    \E r \in Requests :
        /\ On(r, "tiktok", {"video"})
        /\ Returned(r)
        /\ calls[r] = TikTokOrder

\* C6: for a TikTok URL with media kind audio or photo no scraper adapter
\* is called: the call goes straight to the engine.
C6_AudioAndPhotoSkipAdapters ==
    \A r \in Requests :
        On(r, "tiktok", {"audio", "photo"}) =>
            \A i \in 1..Len(calls[r]) : calls[r][i] = "engine"

\* C7: for a Pinterest link, short or long, the engine is invoked only
\* when the fetched page holds no direct .mp4 URL but holds a manifest URL,
\* and is then given that manifest URL; and the request fails without any
\* download attempt only when the page holds neither.
C7_PinterestOrder ==
    \A r \in Requests :
        (pc[r] # "idle" /\ request[r].url \in {URL_PINTEREST, URL_PINTEREST_COM}) =>
            /\ (\E i \in 1..Len(calls[r]) : calls[r][i] = "engine") =>
                /\ page[r].fetched = "yes"
                /\ mp4_candidates(page[r].html) = <<>>
                /\ m3u8_candidates(page[r].html) # <<>>
                /\ loc[r].url = m3u8_candidates(page[r].html)[1]
            /\ (Returned(r) /\ calls[r] = <<>>) =>
                /\ page[r].fetched = "yes"
                /\ mp4_candidates(page[r].html) = <<>>
                /\ m3u8_candidates(page[r].html) = <<>>

\* C8: every path of a Success exists on disk when download() returns and
\* is smaller than MAX_FILE_SIZE, whatever the platform, provider and media
\* kind.
C8_SuccessIsOnDiskAndSmall ==
    \A r \in Requests :
        (Returned(r) /\ result[r].status = "success") =>
            \A p \in {result[r].file_path} \cup { result[r].file_paths[i] :
                                                    i \in 1..Len(result[r].file_paths) } :
                p # NoPath => (Exists(dir, p) /\ SizeOf(dir, p) < MAX_FILE_SIZE)

\* C9: when download() returns a Failure, no file of the request whose
\* transfer was aborted is left on disk.
C9_FailureLeavesNoPartialFile ==
    \A r \in Requests :
        (Returned(r) /\ result[r].status = "error") =>
            \A i \in 1..Len(dir) : dir[i].by = r => dir[i].whole

(***************************************************************************)
(* Calls in flight together.  Every call of the handler starts a           *)
(* download(url, "video") or download(url, "audio") (handlers.py); here    *)
(* all the calls are video requests for one URL that begin together (users *)
(* sharing a link).  Each call is followed up to the first back-off sleep  *)
(* of the engine, and the media servers are well-behaved: a transfer that  *)
(* begins runs to its end.                                                 *)
(***************************************************************************)
InitConc ==
    \E i \in 1..Len(RequestUrls) :
        StartedAt([r \in Requests |-> [url |-> RequestUrls[i], type |-> "video"]], "start")

WholeTransfers ==
    \A i \in 1..Len(dir) : dir[i].whole

NextConc ==
    \E r \in Requests :
        \/ download(r) /\ WholeTransfers'
        \/ TryCobalt(r) /\ WholeTransfers'
        \/ TrySnapTik(r) /\ WholeTransfers'
        \/ TryTikWM(r) /\ WholeTransfers'
        \/ TrySnapSave(r) /\ WholeTransfers'
        \/ TrySaveFrom(r) /\ WholeTransfers'
        \/ TryFbDownloader(r) /\ WholeTransfers'
        \/ ResolveRedirect(r) /\ WholeTransfers'
        \/ FetchPage(r) /\ WholeTransfers'
        \/ DirectFetch(r) /\ WholeTransfers'
        \/ SlideshowProbe(r) /\ WholeTransfers'
        \/ SlideshowDownload(r) /\ WholeTransfers'
        \/ SizeCheck(r) /\ WholeTransfers'
        \/ Attempt(r) /\ WholeTransfers'

SpecConc ==
    InitConc /\ [][NextConc]_vars

\* C10: calls in flight together never write to the same destination path.
C10_NoSharedDestination ==
    \A r1, r2 \in Requests :
        r1 # r2 => { w.path : w \in wrote[r1] } \cap { w.path : w \in wrote[r2] } = {}

(***************************************************************************)
(* The caller of download(): process_download_callback (handlers.py).  It  *)
(* asks for "video" or "audio", waits for download() under an overall      *)
(* timeout of DOWNLOAD_TIMEOUT seconds, uploads the file of a Success and  *)
(* removes it.  How long the awaits of download() take is up to the        *)
(* network and the extractor, so the timeout may strike at any of them.    *)
(***************************************************************************)
\* handlers.py:25-31
ALLOWED_DOMAINS ==
    {<<"y","o","u","t","u","b","e",".","c","o","m">>, <<"y","o","u","t","u",".","b","e">>, <<"w","w","w",".","y","o","u","t","u","b","e",".","c","o","m">>, <<"m",".","y","o","u","t","u","b","e",".","c","o","m">>, <<"t","i","k","t","o","k",".","c","o","m">>, <<"w","w","w",".","t","i","k","t","o","k",".","c","o","m">>, <<"v","m",".","t","i","k","t","o","k",".","c","o","m">>, <<"f","a","c","e","b","o","o","k",".","c","o","m">>, <<"w","w","w",".","f","a","c","e","b","o","o","k",".","c","o","m">>, <<"f","b",".","w","a","t","c","h">>, <<"m",".","f","a","c","e","b","o","o","k",".","c","o","m">>, <<"i","n","s","t","a","g","r","a","m",".","c","o","m">>, <<"w","w","w",".","i","n","s","t","a","g","r","a","m",".","c","o","m">>, <<"t","w","i","t","t","e","r",".","c","o","m">>, <<"w","w","w",".","t","w","i","t","t","e","r",".","c","o","m">>, <<"x",".","c","o","m">>, <<"w","w","w",".","x",".","c","o","m">>}

MAX_URL_LENGTH == 2048

\* handlers.py:38-63: [ok, why]; the tests are made on the netloc as a
\* string, the way the code makes them
validate_url(url) ==
    LET Listed(names, netloc_lower) == \E name \in names : Contains(name, netloc_lower)
        Checked(parsed) ==
            IF parsed.scheme \notin {<<"h","t","t","p">>, <<"h","t","t","p","s">>}
            THEN [ok |-> FALSE, why |-> "scheme"]
            ELSE IF Listed({<<"l","o","c","a","l","h","o","s","t">>, <<"1","2","7",".","0",".","0",".","1">>, <<"0",".","0",".","0",".","0">>, <<":",":","1">>, <<"1","9","2",".","1","6","8",".">>, <<"1","0",".">>, <<"1","7","2",".","1","6",".">>}, Lower(parsed.netloc))
            THEN [ok |-> FALSE, why |-> "internal"]
            ELSE IF ~Listed(ALLOWED_DOMAINS, Lower(parsed.netloc))
            THEN [ok |-> FALSE, why |-> "unsupported"]
            ELSE [ok |-> TRUE, why |-> ""]
    IN  IF url = <<>> THEN [ok |-> FALSE, why |-> "empty"]
        ELSE IF Len(url) > MAX_URL_LENGTH THEN [ok |-> FALSE, why |-> "too_long"]
        ELSE Checked(urlparse(url))

\* a link arrives in a chat message (handlers.py:725: a text that starts
\* with http:// or https://); its format is not chosen yet
InitHandler ==
    \E url \in { (RequestUrls \o OtherLinkUrls)[i] : i \in 1..Len(RequestUrls \o OtherLinkUrls) } :
        StartedAt([r \in Requests |-> IF r = 1 THEN [url |-> url, type |-> ""] ELSE Idle],
                  "link")

\* handlers.py:725-765: a user out of quota and a link validate_url turns
\* down are answered and forgotten; any other link is stored with the
\* format question
handle_link(r) ==
    /\ pc[r] = "link"
    /\ \E quota_left \in BOOLEAN :
        pc' = [pc EXCEPT ![r] = IF quota_left /\ validate_url(request[r].url).ok
                                THEN "format" ELSE "rejected"]
    /\ UNCHANGED <<now, dir, request, loc, result, calls, perm, wrote, first_error, page>>

\* the file the transfer that call r is suspended in writes to
Destinations(r) ==
    CASE pc[r] = "cobalt" ->
            { CobaltFilename(request[r].url, request[r].type, answer, now) :
                answer \in {"redirect", "picker"} }
      [] pc[r] = "snaptik" -> {SnapTikFilename(request[r].url)}
      [] pc[r] = "tikwm" -> {TikWMFilename(request[r].url)}
      [] pc[r] = "snapsave" -> {SnapSaveFilename(request[r].url)}
      [] pc[r] = "savefrom" -> {SaveFromFilename(request[r].url)}
      [] pc[r] = "fbdownloader" -> {FbDownloaderFilename(request[r].url)}
      [] pc[r] = "direct" -> {DirectFilename(r)}
      [] OTHER -> {}

\* handlers.py:786-806: wait_for cancels download() at the await it is
\* suspended at and the handler reports the timeout and returns; it removes
\* nothing.  A transfer cancelled in its chunk loop leaves what it wrote
\* (`cut`: the file it had opened, NoPath when it had opened none).  A job
\* that already runs in the worker pool cannot be cancelled and goes on
\* (`running`; downloader.py:738-743, 787-789).
Timeout(r) ==
    /\ pc[r] \in {"cobalt", "snaptik", "tikwm", "snapsave", "savefrom", "fbdownloader",
                  "resolve", "page", "direct", "probe", "slideshow", "size_check",
                  "attempt", "sleep"}
    /\ \E cut \in {NoPath} \cup Destinations(r), running \in BOOLEAN :
        /\ dir' = IF cut = NoPath THEN dir ELSE WriteFile(dir, cut, MiB, now, r, FALSE)
        /\ wrote' = [wrote EXCEPT ![r] = @ \cup { [by |-> pc[r], path |-> f] : f \in {cut} \ {NoPath} }]
        /\ pc' = [pc EXCEPT ![r] =
                    IF running /\ pc[r] = "attempt" THEN "orphan_attempt"
                    ELSE IF running /\ pc[r] = "slideshow" THEN "orphan_slideshow"
                    ELSE "timed_out"]
    /\ UNCHANGED <<now, request, loc, result, calls, perm, first_error, page>>

\* the worker-pool job of a cancelled call runs to its end: _download_sync
\* (downloader.py:399-412) or _download_tiktok_slideshow_sync (553-554)
\* writes what yt-dlp downloads; nobody awaits its result
OrphanJob(r) ==
    /\ pc[r] \in {"orphan_attempt", "orphan_slideshow"}
    /\ IF pc[r] = "orphan_attempt"
       THEN \E o \in Extractions :
            \E opts \in {AttemptOpts(loc[r].type, loc[r].url, loc[r].attempt)} :
                /\ dir' = YtdlpDir(dir, loc[r].url, opts, o, now, r)
                /\ wrote' = [wrote EXCEPT ![r] = @ \cup
                                { [by |-> "engine", path |-> EnginePath(loc[r].url, o.actual_ext)] :
                                    w \in {TRUE} \cap {YtdlpWrites(opts, o)} }]
       ELSE \E n \in 0..MaxImages :
                /\ dir' = WriteImages(dir, r, n, now)
                /\ wrote' = [wrote EXCEPT ![r] = @ \cup
                                { [by |-> "engine", path |-> SlideshowFilename(r, i)] : i \in 1..n }]
    /\ pc' = [pc EXCEPT ![r] = "timed_out"]
    /\ UNCHANGED <<now, request, loc, result, calls, perm, first_error, page>>

\* handlers.py:767-790: the format is chosen (line 776) and download() is
\* called; and handlers.py:786-947, once download() has ended.  An exception of
\* download() leaves the handler through wait_for ("crashed"); a Failure is
\* reported ("failed"); result["file_path"] (line 823) raises KeyError for a
\* slideshow, which has "file_paths" only ("crashed"); a file above
\* MAX_FILE_SIZE is removed without upload ("not_sent"); else the upload
\* is tried and the finally block removes the file, whatever the upload did
\* ("sent", "not_sent").
process_download_callback(r) ==
    \/ /\ pc[r] = "format"
       /\ \E download_type \in {"video", "audio"} :
            request' = [request EXCEPT ![r].type = download_type]
       /\ pc' = [pc EXCEPT ![r] = "start"]
       /\ UNCHANGED <<now, dir, loc, result, calls, perm, wrote, first_error, page>>
    \/ /\ pc[r] = "done"
       /\ \E upload \in {"sent", "too_big", "telegram_error", "exception"} :
           \E file_path \in {result[r].file_path} :
               IF result[r].status = "raised"
               THEN pc' = [pc EXCEPT ![r] = "crashed"] /\ dir' = dir
               ELSE IF result[r].status = "error"
               THEN pc' = [pc EXCEPT ![r] = "failed"] /\ dir' = dir
               ELSE IF file_path = NoPath
               THEN pc' = [pc EXCEPT ![r] = "crashed"] /\ dir' = dir
               ELSE IF Exists(dir, file_path) /\ SizeOf(dir, file_path) > MAX_FILE_SIZE
               THEN pc' = [pc EXCEPT ![r] = "not_sent"] /\ dir' = Remove(dir, file_path)
               ELSE /\ pc' = [pc EXCEPT ![r] = IF upload = "sent" THEN "sent" ELSE "not_sent"]
                    /\ dir' = Remove(dir, file_path)
       /\ UNCHANGED <<now, request, loc, result, calls, perm, wrote, first_error, page>>

\* The steps of download() a chat link can reach.  _detect_platform tests
\* the Pinterest names last, and every link validate_url accepts holds a
\* name it tests earlier, so the Pinterest steps are not among them.
NextHandler ==
    \E r \in Requests :
        \/ handle_link(r)
        \/ download(r)
        \/ TryCobalt(r)
        \/ TrySnapTik(r)
        \/ TryTikWM(r)
        \/ TrySnapSave(r)
        \/ TrySaveFrom(r)
        \/ TryFbDownloader(r)
        \/ SlideshowProbe(r)
        \/ SlideshowDownload(r)
        \/ SizeCheck(r)
        \/ Attempt(r)
        \/ Backoff(r)
        \/ Timeout(r)
        \/ OrphanJob(r)
        \/ process_download_callback(r)

SpecHandler ==
    InitHandler /\ [][NextHandler]_vars

\* C11: once the caller's timeout around download() has expired and the
\* call was cancelled, no file written for that request is in the download
\* directory, whatever a worker-pool job of the request still does.
C11_TimeoutLeavesNoFile ==
    \A r \in Requests :
        pc[r] = "timed_out" => \A i \in 1..Len(dir) : dir[i].by # r

\* C12: after the handler has processed a Success of download(), whatever
\* the upload did, none of the files the result names is on disk.
C12_HandledSuccessLeavesNoFile ==
    \A r \in Requests :
        (pc[r] \in {"sent", "not_sent", "crashed"} /\ result[r].status = "success") =>
            \A p \in {result[r].file_path} \cup { result[r].file_paths[i] :
                                                    i \in 1..Len(result[r].file_paths) } :
                ~Exists(dir, p)

(***************************************************************************)
(* The direct-fetch routines: Downloader._download_direct_mp4 (reached at  *)
(* "direct") and the _download_file of CobaltDownloader (reached at        *)
(* "snaptik") and of FacebookDownloader (reached at "snapsave"), for every *)
(* answer the media server can give at that point.                         *)
(***************************************************************************)
\* C13: when the server reports a Content-Length above the maximum, each
\* direct-fetch routine returns a too-large failure and neither creates the
\* destination file nor writes a byte.
C13_AnnouncedOversizeWritesNothing ==
    \A r \in Requests, resp \in Responses, head_ok \in BOOLEAN :
        (resp.status = 200 /\ resp.content_length > MAX_FILE_SIZE) =>
            /\ pc[r] = "direct" =>
                \A out \in {_download_direct_mp4(dir, head_ok, resp, now, r)} :
                    /\ out.result.status = "error"
                    /\ ClassOfMessage(out.result.message) = "too_large"
                    /\ out.filename = NoPath
                    /\ out.dir = dir
            /\ pc[r] \in {"snaptik", "snapsave"} =>
                \A out \in {_download_file(dir, resp,
                                           IF pc[r] = "snaptik"
                                           THEN SnapTikFilename(request[r].url)
                                           ELSE SnapSaveFilename(request[r].url),
                                           now, r)} :
                    /\ ~out.ok
                    /\ out.why = "too_large"
                    /\ ~out.created
                    /\ out.dir = dir

\* C14: when the server sends no Content-Length and streams more than the
\* maximum, each direct-fetch routine stops mid-stream with a too-large
\* failure and the destination file does not exist afterwards.
C14_UnannouncedOversizeLeavesNoFile ==
    \A r \in Requests, resp \in Responses, head_ok \in BOOLEAN :
        (/\ resp.status = 200
         /\ resp.content_length = 0
         /\ resp.body > MAX_FILE_SIZE
         /\ resp.drop = -1) =>
            /\ pc[r] = "direct" =>
                \A out \in {_download_direct_mp4(dir, head_ok, resp, now, r)} :
                    /\ out.result.status = "error"
                    /\ ClassOfMessage(out.result.message) = "too_large"
                    /\ ~Exists(out.dir, DirectFilename(r))
            /\ pc[r] \in {"snaptik", "snapsave"} =>
                \A filename \in {IF pc[r] = "snaptik" THEN SnapTikFilename(request[r].url)
                                 ELSE SnapSaveFilename(request[r].url)} :
                \A out \in {_download_file(dir, resp, filename, now, r)} :
                    /\ ~out.ok
                    /\ out.why = "too_large"
                    /\ ~Exists(out.dir, filename)

(***************************************************************************)
(* The pure functions of the Downloader, each called on its own.  Here     *)
(* request[r] is the call (the function and its arguments), result[r] the  *)
(* value it returned, calls[r] the call made before it on the same object. *)
(***************************************************************************)
\* the domains _detect_platform lists for the five platforms that have a
\* branch of their own, each with the tag of its list
SupportedDomains ==
    <<<<<<"y","o","u","t","u","b","e",".","c","o","m">>, "youtube">>,
      <<<<"y","o","u","t","u",".","b","e">>, "youtube">>,
      <<<<"t","i","k","t","o","k",".","c","o","m">>, "tiktok">>,
      <<<<"v","m",".","t","i","k","t","o","k",".","c","o","m">>, "tiktok">>,
      <<<<"v","t",".","t","i","k","t","o","k",".","c","o","m">>, "tiktok">>,
      <<<<"f","a","c","e","b","o","o","k",".","c","o","m">>, "facebook">>,
      <<<<"f","b",".","w","a","t","c","h">>, "facebook">>,
      <<<<"i","n","s","t","a","g","r","a","m",".","c","o","m">>, "instagram">>,
      <<<<"p","i","n","t","e","r","e","s","t",".","c","o","m">>, "pinterest">>,
      <<<<"p","i","n",".","i","t">>, "pinterest">>>>

\* a link to a page of the domain, behind an optional subdomain prefix, in
\* capitals (str.upper()) when `upper`
DomainUrl(domain, prefix, upper) ==
    LET UpperChar(c) ==
            IF \E i \in 1..26 : LowerCase[i] = c
            THEN UpperCase[CHOOSE i \in 1..26 : LowerCase[i] = c]
            ELSE c
        Upper(s) == [i \in 1..Len(s) |-> UpperChar(s[i])]
    IN
    <<"h","t","t","p","s",":","/","/">>
        \o (IF upper THEN Upper(prefix \o domain) ELSE prefix \o domain)
        \o <<"/","v","/","1">>

HostPrefixes ==
    {<<>>, <<"w","w","w",".">>, <<"m",".">>}

\* the URLs the two rewrites are applied to: the request URLs, the URLs the
\* rewrites produce, and further Shorts and pin links
NormalizeInputs ==
    { AllUrls[i] : i \in 1..Len(AllUrls) } \cup {URL_PIN_PAGE} \cup
    {<<"h","t","t","p","s",":","/","/","w","w","w",".","y","o","u","t","u","b","e",".","c","o","m","/","s","h","o","r","t","s","/","a","1">>,
     <<"h","t","t","p","s",":","/","/","m",".","y","o","u","t","u","b","e",".","c","o","m","/","s","h","o","r","t","s","/","a","1","/","?","f","e","a","t","u","r","e","=","s","h","a","r","e","&","s","i","=","b","2">>,
     <<"h","t","t","p","s",":","/","/","w","w","w",".","y","o","u","t","u","b","e",".","c","o","m","/","s","h","o","r","t","s","/","a","1","?","s","i","=","&","s","i","=","b","2">>,
     <<"h","t","t","p","s",":","/","/","Y","o","u","T","u","b","e",".","c","o","m","/","s","h","o","r","t","s","/","a","1","#","t","=","1">>,
     <<"h","t","t","p","s",":","/","/","w","w","w",".","y","o","u","t","u","b","e",".","c","o","m","/","s","h","o","r","t","s","/">>,
     <<"h","t","t","p","s",":","/","/","w","w","w",".","y","o","u","t","u","b","e",".","c","o","m","/","s","h","o","r","t","s","/","w","a","t","c","h","?","v","=","a","1">>,
     <<"h","t","t","p","s",":","/","/","y","o","u","t","u",".","b","e","/","a","1">>,
     <<"h","t","t","p","s",":","/","/","p","i","n",".","i","t","/","p","i","n","/","1","2">>,
     <<"h","t","t","p","s",":","/","/","w","w","w",".","p","i","n","t","e","r","e","s","t",".","c","o","m","/","p","i","n","/","a","b","/">>,
     <<"h","t","t","p","s",":","/","/","p","i","n","t","e","r","e","s","t",".","c","o","m","/","x","/","p","i","n","/","3","/","p","i","n","/","4","5","?","a","=","1">>}

PureCalls ==
    { [fn |-> "_detect_platform", url |-> DomainUrl(SupportedDomains[i][1], prefix, upper)] :
        i \in 1..Len(SupportedDomains), prefix \in HostPrefixes, upper \in BOOLEAN }
    \cup { [fn |-> "_detect_platform", url |-> u] :
             u \in {URL_OTHER,
                    <<"h","t","t","p","s",":","/","/","v","i","m","e","o",".","c","o","m","/","1","?","r","e","f","=","t","i","k","t","o","k",".","c","o","m">>,
                    <<"h","t","t","p","s",":","/","/","v","i","m","e","o",".","c","o","m","/","y","o","u","t","u","b","e",".","c","o","m","/","1">>} }
    \cup { [fn |-> f, url |-> u] :
             f \in {"_normalize_youtube_url", "canonical_pin"}, u \in NormalizeInputs }
    \cup { [fn |-> "_resolve_redirect", url |-> u, request_ok |-> ok] :
             u \in {URL_PINTEREST, URL_PINTEREST_COM}, ok \in BOOLEAN }
    \cup { [fn |-> "_get_opts", download_type |-> t, url |-> RequestUrls[i], check_only |-> c] :
             t \in MediaKinds, i \in 1..Len(RequestUrls), c \in BOOLEAN }
    \cup { [fn |-> "_download_sync", o |-> Extraction(kind, text, "", "", 0, FALSE)] :
             kind \in {"raise_dl", "raise_other"},
             text \in DownloadErrorTexts \cup OverlappingErrorTexts }

InitPure ==
    \E call \in PureCalls :
        StartedAt([r \in Requests |-> IF r = 1 THEN call ELSE Idle], "start")

PureReturn(r, call, value) ==
    /\ pc' = [pc EXCEPT ![r] = "returned"]
    /\ request' = [request EXCEPT ![r] = call]
    /\ result' = [result EXCEPT ![r] = value]
    /\ calls' = [calls EXCEPT ![r] = IF pc[r] = "returned" THEN <<request[r]>> ELSE <<>>]
    /\ UNCHANGED <<now, dir, loc, perm, wrote, first_error, page>>

detect_platform_call(r) ==
    /\ pc[r] = "start"
    /\ request[r].fn = "_detect_platform"
    /\ PureReturn(r, request[r], _detect_platform(request[r].url))

\* one of the two rewrites of a URL
normalize_call(r) ==
    /\ pc[r] = "start"
    /\ request[r].fn \in {"_normalize_youtube_url", "canonical_pin"}
    /\ PureReturn(r, request[r],
                  IF request[r].fn = "canonical_pin"
                  THEN CanonicalPin(request[r].url)
                  ELSE _normalize_youtube_url(request[r].url))

resolve_redirect_call(r) ==
    /\ pc[r] = "start"
    /\ request[r].fn = "_resolve_redirect"
    /\ PureReturn(r, request[r], _resolve_redirect(request[r].url, request[r].request_ok))

\* _get_opts, called with the arguments of the request and then again, on
\* the same Downloader, with any others
get_opts_call(r) ==
    /\ pc[r] \in {"start", "returned"}
    /\ request[r].fn = "_get_opts"
    /\ \E call \in IF pc[r] = "start" THEN {request[r]}
                   ELSE { c \in PureCalls : c.fn = "_get_opts" } :
           PureReturn(r, call, _get_opts(call.download_type, call.url, call.check_only))

\* _download_sync when the extractor raises inside its try block
download_sync_call(r) ==
    /\ pc[r] = "start"
    /\ request[r].fn = "_download_sync"
    /\ PureReturn(r, request[r],
                  _download_sync(<<>>, URL_OTHER, _get_opts("video", URL_OTHER, FALSE),
                                 request[r].o, 0))

NextPure ==
    \E r \in Requests :
        \/ download_sync_call(r)
        \/ detect_platform_call(r)
        \/ normalize_call(r)
        \/ resolve_redirect_call(r)
        \/ get_opts_call(r)

SpecPure ==
    InitPure /\ [][NextPure]_vars

\* C15: for every link whose host is one of the supported platform domains,
\* with or without an m. or www. prefix and in lower or upper case,
\* _detect_platform returns the tag of that domain's platform.
C15_SupportedDomainsGetTheirTag ==
    \A r \in Requests, i \in 1..Len(SupportedDomains), prefix \in HostPrefixes, upper \in BOOLEAN :
        (/\ pc[r] = "returned"
         /\ request[r] = [fn |-> "_detect_platform",
                          url |-> DomainUrl(SupportedDomains[i][1], prefix, upper)])
        => result[r] = SupportedDomains[i][2]

\* C16: each of the two URL rewrites is idempotent: applied to a URL it
\* returned, the Shorts rewrite and the pin rewrite return it unchanged.
C16_NormalizeIdempotent ==
    \A r \in Requests :
        /\ (pc[r] = "returned" /\ request[r].fn = "_normalize_youtube_url")
           => _normalize_youtube_url(result[r]) = result[r]
        /\ (pc[r] = "returned" /\ request[r].fn = "canonical_pin")
           => CanonicalPin(result[r]) = result[r]

\* a Shorts link was rewritten, and the rewrite of its result changes nothing
C16_ShortsRewrittenOnce ==
    \E r \in Requests :
        /\ pc[r] = "returned"
        /\ request[r].fn = "_normalize_youtube_url"
        /\ Contains(S_shorts, request[r].url)
        /\ result[r] # request[r].url
        /\ _normalize_youtube_url(result[r]) = result[r]

(***************************************************************************)
(* The engine's URL.                                                       *)
(***************************************************************************)

\* C17: for a request made with the Shorts link, the size probe and every
\* download attempt of the engine are given the watch URL of the same video
\* with the si parameter kept, never the Shorts link itself.
C17_EngineGetsWatchUrl ==
    \A r \in Requests :
        (request[r].url = URL_YOUTUBE /\ pc[r] \in {"probe", "slideshow", "size_check", "attempt", "sleep"})
        => /\ loc[r].url = URL_WATCH
           /\ loc[r].url # request[r].url

\* the Shorts request went through the size probe and all attempts of the
\* engine, which worked on the watch URL
C17_ShortsWentThroughEngine ==
    \E r \in Requests :
        /\ request[r].url = URL_YOUTUBE
        /\ pc[r] = "done"
        /\ calls[r] = <<"engine">>
        /\ loc[r].attempt = max_retries
        /\ loc[r].url = URL_WATCH

(***************************************************************************)
(* The options of an audio download.  _get_opts builds its dictionary anew *)
(* on every call and keeps nothing on the Downloader, so what an earlier   *)
(* call built cannot reach a later one.                                    *)
(***************************************************************************)
\* C18: the options _get_opts builds for media kind audio hold no video
\* post-processing: no videoconvertor arguments, no FFmpegVideoConvertor
\* post-processor and no merge_output_format, on every platform and
\* whatever was built before on the same Downloader.
C18_AudioOptsHaveNoVideoArgs ==
    \A r \in Requests :
        (/\ pc[r] = "returned"
         /\ request[r].fn = "_get_opts"
         /\ request[r].download_type = "audio")
        => /\ result[r].postprocessor_args = {}
           /\ \A i \in 1..Len(result[r].postprocessors) :
                  result[r].postprocessors[i].key # "FFmpegVideoConvertor"
           /\ result[r].merge_output_format = ""

\* the options of a TikTok audio download, built right after those of a
\* TikTok video download, which held the video conversion
C18_AudioBuiltAfterVideo ==
    \E r \in Requests :
        /\ pc[r] = "returned"
        /\ request[r] = [fn |-> "_get_opts", download_type |-> "audio",
                         url |-> URL_TIKTOK, check_only |-> FALSE]
        /\ calls[r] = << [fn |-> "_get_opts", download_type |-> "video",
                          url |-> URL_TIKTOK, check_only |-> FALSE] >>
        /\ "videoconvertor" \in
               _get_opts("video", URL_TIKTOK, FALSE).postprocessor_args
        /\ result[r].postprocessors = <<PostProcessor("FFmpegExtractAudio", "mp3", "")>>

(***************************************************************************)
(* The engine's pre-flight phase and retry loop.                           *)
(***************************************************************************)
\* C19 as stated: a metadata probe runs before the first download attempt
\* of the engine exactly when the media kind is not audio and the platform
\* is not TikTok; an audio or a TikTok request is downloaded unprobed.
C19_ProbeExactlyWhenNotAudioNotTikTok ==
    \A r \in Requests :
        pc[r] \in {"attempt", "sleep"} =>
            (loc[r].probes # <<>>
             <=> (loc[r].type # "audio" /\ PlatformOf[loc[r].url] # "tiktok"))

\* C19, amended: the size check runs before the first download attempt of
\* the engine exactly when the media kind is not audio and the platform is
\* not TikTok, and never for an audio or a TikTok request; a TikTok video
\* request is still probed once before its download, to detect a slideshow.
C19_SizeCheckExactlyWhenNotAudioNotTikTok ==
    \A r \in Requests :
        LET ran(probe) == \E i \in 1..Len(loc[r].probes) : loc[r].probes[i] = probe
            checked == loc[r].type # "audio" /\ PlatformOf[loc[r].url] # "tiktok"
        IN  /\ ran("size") => (pc[r] # "idle" /\ checked)
            /\ pc[r] \in {"attempt", "sleep"} =>
                /\ ran("size") <=> checked
                /\ ran("slideshow")
                   <=> (loc[r].type = "video" /\ PlatformOf[loc[r].url] = "tiktok")
                /\ Len(loc[r].probes) <= 1

\* a video request of another platform stands at its first download
\* attempt, after the size check and nothing else
C19_FirstAttemptAfterSizeCheck ==
    \E r \in Requests :
        /\ pc[r] = "attempt"
        /\ loc[r].attempt = 1
        /\ loc[r].type = "video"
        /\ PlatformOf[loc[r].url] = "youtube"
        /\ loc[r].probes = <<"size">>

\* C20: an attempt of the retry loop that fails with a permanent class
\* (too large, unavailable or private, age-restricted, region-blocked) ends
\* the loop at once: the engine returns that failure, without a backoff
\* sleep and without another attempt.
C20_PermanentFailureEndsLoop ==
    \A r \in Requests :
        (/\ loc[r].last.status = "error"
         /\ ClassOfMessage(loc[r].last.message) \in PermanentClasses)
        => /\ pc[r] = "done"
           /\ result[r] = IF loc[r].context = "facebook" THEN loc[r].saved
                          ELSE loc[r].last

\* the second attempt failed for good and the engine returned its failure,
\* leaving the third attempt out
C20_SecondAttemptWasFinal ==
    \E r \in Requests :
        /\ pc[r] = "done"
        /\ loc[r].attempt = 2
        /\ loc[r].last = Error(MSG.FORBIDDEN)
        /\ result[r] = loc[r].last

\* C21: one call of the engine makes at most max_retries download attempts;
\* an attempt that fails with a retryable class (rate-limited, extractor
\* broken, unknown) or raises is followed by the backoff and another attempt
\* while fewer than max_retries were made, and by an error result after the
\* last one.
C21_RetryableIsRetriedUpToThree ==
    \A r \in Requests :
        /\ loc[r].attempt \in 1..max_retries
        /\ (\/ loc[r].last.status = "raised"
            \/ /\ loc[r].last.status = "error"
               /\ ClassOfMessage(loc[r].last.message) \notin PermanentClasses)
           => IF loc[r].attempt < max_retries
              THEN pc[r] = "sleep"
              ELSE pc[r] = "done" /\ result[r].status = "error"

\* C25: the delay slept after the failed attempt k of the retry loop is
\* min(2^k, 8) seconds: it doubles from attempt to attempt, never exceeds 8
\* seconds, and no delay follows the last attempt.
C25_BackoffDelays ==
    \A r \in Requests :
        /\ Len(loc[r].slept) = loc[r].attempt - 1
        /\ Len(loc[r].slept) < max_retries
        /\ \A k \in 1..Len(loc[r].slept) :
            /\ loc[r].slept[k] = (IF 2 ^ k < 8 THEN 2 ^ k ELSE 8)
            /\ loc[r].slept[k] <= 8
            /\ k > 1 => loc[r].slept[k] = 2 * loc[r].slept[k - 1]

\* all attempts failed: the loop slept after the first and the second and
\* returned its error right after the third
C25_SleptTwiceThenFailed ==
    \E r \in Requests :
        /\ pc[r] = "done"
        /\ result[r] = Error(MSG.FAILED_AFTER)
        /\ loc[r].attempt = max_retries
        /\ loc[r].slept = <<2, 4>>

\* C24: redirect resolution is best effort: when the request it makes
\* fails, _resolve_redirect raises nothing and returns the URL it was given.
C24_FailedRedirectReturnsUrl ==
    \A r \in Requests :
        (/\ pc[r] = "returned"
         /\ request[r].fn = "_resolve_redirect"
         /\ ~request[r].request_ok)
        => result[r] = request[r].url

\* the request for the short pin link failed and the short link came back
C24_ShortLinkCameBack ==
    \E r \in Requests :
        /\ pc[r] = "returned"
        /\ request[r] = [fn |-> "_resolve_redirect", url |-> URL_PINTEREST,
                         request_ok |-> FALSE]
        /\ result[r] = URL_PINTEREST

\* C29: the platform _detect_platform returns depends on the host of the
\* URL alone: URLs with the same host get the same platform whatever their
\* path and query, and a URL whose host is no platform domain, and no
\* subdomain of one, is classified "other".
C29_PlatformDependsOnHostOnly ==
    \A r \in Requests :
        (pc[r] = "returned" /\ request[r].fn = "_detect_platform") =>
            LET host == urlparse(request[r].url).hostname
                IsOrUnder(domain) == host = domain \/ EndsWith(host, <<".">> \o domain)
                known == \/ \E i \in 1..Len(SupportedDomains) : IsOrUnder(SupportedDomains[i][1])
                         \/ \E d \in {<<"f","b",".","c","o","m">>,
                                      <<"i","n","s","t","a","g","r",".","a","m">>,
                                      <<"t","w","i","t","t","e","r",".","c","o","m">>,
                                      <<"x",".","c","o","m">>, <<"t",".","c","o">>} :
                                IsOrUnder(d)
            IN  /\ \A c \in PureCalls :
                    (c.fn = "_detect_platform" /\ urlparse(c.url).hostname = host)
                    => _detect_platform(c.url) = result[r]
                /\ ~known => result[r] = "other"

\* C26: the size check is fail-open: when the probe itself goes wrong (the
\* extractor raises, or gives no metadata or an empty list of entries), the
\* engine goes on to its download attempts and returns no failure for it.
C26_ProbeFailsOpen ==
    \A r \in Requests :
        loc[r].size_probe.kind \in {"raise", "noinfo", "no_entries"}
        => \/ pc[r] \in {"attempt", "sleep"}
           \/ loc[r].last.status # "none"

\* C27: when the size probe reports a size above MAX_FILE_SIZE the engine
\* returns the "File too large" failure without a single download attempt;
\* when it reports no size, or a size not above the maximum, the download
\* attempts take place.
C27_OversizeProbeStopsBeforeDownload ==
    \A r \in Requests :
        /\ (loc[r].size_probe.kind = "info" /\ loc[r].size_probe.over)
           => /\ pc[r] = "done"
              /\ result[r] = IF loc[r].context = "facebook" THEN loc[r].saved
                             ELSE Error(MSG.TOO_LARGE_PROBE)
              /\ loc[r].last = NoResult
              /\ loc[r].attempt = 1
              /\ \A w \in wrote[r] : w.by # "engine"
        /\ (loc[r].size_probe.kind = "info" /\ ~loc[r].size_probe.over)
           => \/ pc[r] \in {"attempt", "sleep"}
              \/ loc[r].last.status # "none"

\* the probe of a watch URL reported too many bytes and the call ended with
\* the failure, nothing attempted and nothing written
C27_StoppedByProbe ==
    \E r \in Requests :
        /\ request[r].url = URL_YOUTUBE
        /\ loc[r].size_probe = [kind |-> "info", over |-> TRUE]
        /\ pc[r] = "done"
        /\ result[r] = Error(MSG.TOO_LARGE_PROBE)
        /\ dir = <<>>

\* C28: a direct-fetch transfer never has more than the maximum size on
\* disk: the running total is tested before each chunk is written, so the
\* bytes written (which only grow during a transfer) stay within the cap,
\* for the Pinterest fetch and for the adapters' transfers alike.
C28_WrittenBytesWithinCap ==
    \A r \in Requests :
        /\ \A w \in wrote[r] :
               (w.by # "engine" /\ Exists(dir, w.path)) => SizeOf(dir, w.path) <= MAX_FILE_SIZE
        /\ \A resp \in Responses :
            /\ pc[r] = "direct"
               => DirectChunkLoop(resp.body, resp.drop).written <= MAX_FILE_SIZE
            /\ pc[r] \in {"cobalt", "snaptik", "tikwm", "snapsave", "savefrom", "fbdownloader"}
               => AdapterChunkLoop(resp.body, resp.drop).written <= ADAPTER_MAX_SIZE

\* a transfer of an adapter ran into the cap: what it left on disk is
\* exactly as long as the cap allows
C28_StoppedAtTheCap ==
    \E r \in Requests :
        \E w \in wrote[r] :
            /\ w.by # "engine"
            /\ Exists(dir, w.path)
            /\ SizeOf(dir, w.path) = ADAPTER_MAX_SIZE
            /\ AdapterChunkLoop(BigBody, -1).why = "too_large"

\* C30: the too-large class survives on the way up: when the transfer an
\* adapter started fails because the file exceeds the maximum size, the
\* failure the adapter returns is of class too_large and differs from the
\* one it returns for a network failure, and so is the failure download()
\* returns in the end.
C30_TooLargeStaysTooLarge ==
    \A r \in Requests :
        /\ (/\ Returned(r)
            /\ result[r].status = "error"
            /\ perm[r].at # 0
            /\ perm[r].class = "too_large"
            /\ calls[r][perm[r].at] # "engine")
           => ClassOfMessage(result[r].message) = "too_large"
        /\ pc[r] \in {"snaptik", "snapsave"} =>
            \A resp \in Responses :
                LET adapter(answer) ==
                        IF pc[r] = "snaptik"
                        THEN _try_snaptik_api(dir, request[r].url, "link", answer, now, r)
                        ELSE _try_snapsave_api(dir, request[r].url, "link", answer, now, r)
                IN  adapter(resp).why = "too_large"
                    => /\ ClassOfMessage(adapter(resp).result.message) = "too_large"
                       /\ adapter(resp).result # adapter(Response(0, 0, 0, -1)).result


\* C23: the chat handler calls download() only with a link validate_url
\* accepted, and a link validate_url accepted has scheme http or https and a
\* host that is an allow-listed domain or a subdomain of one and no
\* internal or private address.
C23_OnlySafeLinksAreDownloaded ==
    LET Under(host, domain) == host = domain \/ EndsWith(host, <<".">> \o domain)
        Internal(host) ==
            \/ host = <<"l","o","c","a","l","h","o","s","t">>
            \/ \E prefix \in {<<"1","2","7",".">>, <<"0",".">>, <<"1","0",".">>, <<"1","9","2",".","1","6","8",".">>, <<"1","7","2",".","1","6",".">>, <<"1","6","9",".","2","5","4",".">>} : StartsWith(host, prefix)
        Safe(parsed) ==
            /\ parsed.scheme \in {<<"h","t","t","p">>, <<"h","t","t","p","s">>}
            /\ \E domain \in ALLOWED_DOMAINS : Under(parsed.hostname, domain)
            /\ ~Internal(parsed.hostname)
    IN  \A r \in Requests :
            pc[r] \notin {"idle", "link", "rejected"} =>
                /\ validate_url(request[r].url).ok
                /\ Safe(urlparse(request[r].url))


(***************************************************************************)
(* main() and the worker pool: start, serve until told to stop, clean up.  *)
(* pc[1] is main()'s position, loc the Downloader's pool, calls[1] the     *)
(* cleanup steps taken so far, result[1] the way main() ended.             *)
(***************************************************************************)
\* extraction jobs handed to the pool in one run
MaxJobs == 3

\* downloader.py:117-122. executor.shutdown(wait=True) returns when the jobs
\* in flight have ended; with wait=False they go on running.
shutdown(pool, wait) ==
    IF pool._shutdown
    THEN pool
    ELSE [pool EXCEPT !.executor = "shut",
                      !.jobs = IF wait THEN 0 ELSE @,
                      !.ended = IF wait THEN @ + pool.jobs ELSE @,
                      !.shutdowns = @ + 1,
                      !._shutdown = TRUE]

\* main.py:57-101, in the order cleanup() takes them
CleanupSteps ==
    <<"stop_polling", "session_close", "db_close", "shutdown", "runner_cleanup">>

\* downloader.py:67-71: the Downloader as built at import, running and
\* without jobs
InitMain ==
    StartedAt([r \in Requests |->
                  IF r = 1
                  THEN [_shutdown |-> FALSE, executor |-> "running", jobs |-> 0,
                        ended |-> 0, shutdowns |-> 0, refused |-> FALSE]
                  ELSE Idle], "init")

PoolStep(pool, at, steps) ==
    /\ request' = [request EXCEPT ![1] = pool]
    /\ pc' = [pc EXCEPT ![1] = at]
    /\ calls' = [calls EXCEPT ![1] = @ \o steps]
    /\ UNCHANGED <<now, dir, loc, result, perm, wrote, first_error, page>>

\* main.py:112-171. Bot(), Dispatcher() and start_web_server() come before
\* the try statement: when one of them raises, main() ends there.  Inside
\* it, a stop signal, an exception and a cancellation all lead to cleanup().
main ==
    \/ /\ pc[1] = "init"
       /\ \E started \in BOOLEAN :
            PoolStep(request[1], IF started THEN "serving" ELSE "failed", <<>>)
    \/ /\ pc[1] = "serving"
       /\ PoolStep(request[1], CleanupSteps[1], <<>>)

\* downloader.py:345 and 451, loop.run_in_executor(self.executor, ...): a
\* handler that is still running hands a job to the pool; an executor that
\* was shut down refuses it (RuntimeError)
run_in_executor ==
    /\ pc[1] \notin {"init", "failed", "exited", "deleted"}
    /\ IF request[1].executor = "shut"
       THEN PoolStep([request[1] EXCEPT !.refused = TRUE], pc[1], <<>>)
       ELSE /\ request[1].jobs + request[1].ended < MaxJobs
            /\ PoolStep([request[1] EXCEPT !.jobs = @ + 1], pc[1], <<>>)

\* a worker thread ends its job
JobEnds ==
    /\ request[1].jobs > 0
    /\ PoolStep([request[1] EXCEPT !.jobs = @ - 1, !.ended = @ + 1], pc[1], <<>>)

\* main.py:55-103, one step of cleanup() at a time: each step is tried,
\* what it raises is logged, and the next step follows.  The Downloader's
\* shutdown is awaited by nothing: it blocks the loop until it returns.
cleanup ==
    \E i \in 1..Len(CleanupSteps), raised \in BOOLEAN :
        /\ pc[1] = CleanupSteps[i]
        /\ CleanupSteps[i] = "shutdown" => ~raised
        /\ PoolStep(IF CleanupSteps[i] = "shutdown"
                    THEN shutdown(request[1], TRUE) ELSE request[1],
                    IF i < Len(CleanupSteps) THEN CleanupSteps[i + 1] ELSE "exited",
                    <<[step |-> CleanupSteps[i], raised |-> raised]>>)

\* downloader.py:124-126, when the interpreter drops the Downloader
__del__ ==
    /\ pc[1] \in {"failed", "exited"}
    /\ PoolStep(shutdown(request[1], FALSE), "deleted", <<>>)

NextMain ==
    \/ main
    \/ run_in_executor
    \/ JobEnds
    \/ cleanup
    \/ __del__

SpecMain ==
    InitMain /\ [][NextMain]_vars

\* C22: on every path on which main() ends, cleanup() has called the
\* Downloader's shutdown(wait=True), whatever the cleanup steps before it
\* raised; that call leaves no job in flight, the executor is shut down at
\* most once however often shutdown is called, and once it is shut down
\* the pool takes no new job.
C22_EveryExitShutsThePoolDown ==
    LET ShutdownCalled == \E i \in 1..Len(calls[1]) : calls[1][i].step = "shutdown"
    IN  /\ pc[1] \in {"failed", "exited", "deleted"} => ShutdownCalled
        /\ ShutdownCalled => request[1].jobs = 0 /\ request[1].executor = "shut"
        /\ request[1].shutdowns <= 1


\* C31: a call of download() makes a bounded number of provider calls: every
\* scraper endpoint is contacted at most once for the request, and the
\* engine runs at most one slideshow probe, one size probe and max_retries
\* download attempts for it.
C31_ProviderCallsAreBounded ==
    LET Times(s, x) == Cardinality({ i \in 1..Len(s) : s[i] = x })
    IN  \A r \in Requests :
            /\ \A name \in { COBALT_ENDPOINTS[i] : i \in 1..Len(COBALT_ENDPOINTS) }
                           \cup {"snaptik", "tikwm", "snapsave", "savefrom", "fbdownloader"} :
                   Times(calls[r], name) <= 1
            /\ Times(loc[r].ran, "slideshow") <= 1
            /\ Times(loc[r].ran, "size") <= 1
            /\ Times(loc[r].ran, "attempt") <= max_retries


\* C32: the classification of extractor errors in _download_sync is total:
\* a DownloadError whose text carries a known signature gets the message of
\* its class, the first in the order too large, unavailable or private, age
\* restricted, HTTP 429, HTTP 403, extractor broken; every other text, and
\* every exception that is no DownloadError, gets a message of the unknown
\* class; the result is an error result in each case.
C32_ClassificationIsTotal ==
    LET Signatures ==
            <<[class |-> "too_large", exact |-> {<<"F","i","l","e"," ","i","s"," ","l","a","r","g","e","r"," ","t","h","a","n">>}, lower |-> {<<"t","o","o"," ","l","a","r","g","e">>}],
              [class |-> "unavailable_or_private", exact |-> {<<"V","i","d","e","o"," ","u","n","a","v","a","i","l","a","b","l","e">>, <<"P","r","i","v","a","t","e"," ","v","i","d","e","o">>}, lower |-> {}],
              [class |-> "age_restricted", exact |-> {<<"S","i","g","n"," ","i","n"," ","t","o"," ","c","o","n","f","i","r","m">>}, lower |-> {}],
              [class |-> "rate_limited", exact |-> {<<"H","T","T","P"," ","E","r","r","o","r"," ","4","2","9">>}, lower |-> {}],
              [class |-> "region_blocked", exact |-> {<<"H","T","T","P"," ","E","r","r","o","r"," ","4","0","3">>}, lower |-> {}],
              [class |-> "extractor_broken", exact |-> {<<"F","a","i","l","e","d"," ","t","o"," ","e","x","t","r","a","c","t"," ","a","n","y"," ","p","l","a","y","e","r"," ","r","e","s","p","o","n","s","e">>}, lower |-> {}]>>
        Matches(i, text) ==
            \/ \E s \in Signatures[i].exact : Contains(s, text)
            \/ \E s \in Signatures[i].lower : Contains(s, Lower(text))
        ClassOf(o) ==
            IF o.kind = "raise_dl" /\ \E i \in 1..Len(Signatures) : Matches(i, o.text)
            THEN Signatures[CHOOSE i \in 1..Len(Signatures) :
                               /\ Matches(i, o.text)
                               /\ \A j \in 1..(i - 1) : ~Matches(j, o.text)].class
            ELSE "unknown"
    IN  \A r \in Requests :
            (pc[r] = "returned" /\ request[r].fn = "_download_sync") =>
                /\ result[r].status = "error"
                /\ result[r].message # <<>>
                /\ ClassOfMessage(result[r].message) = ClassOf(request[r].o)

\* a DownloadError that names the HTTP 403 and an unavailable video was
\* classified as unavailable
C32_UnavailableBeforeForbidden ==
    \E r \in Requests :
        /\ pc[r] = "returned"
        /\ request[r].fn = "_download_sync"
        /\ request[r].o.kind = "raise_dl"
        /\ Contains(<<"H","T","T","P"," ","E","r","r","o","r"," ","4","0","3">>, request[r].o.text)
        /\ Contains(<<"V","i","d","e","o"," ","u","n","a","v","a","i","l","a","b","l","e">>, request[r].o.text)
        /\ result[r] = Error(MSG.UNAVAILABLE)


\* C33: a success result of download() has one of two shapes and never
\* both: a single file (one path under file_path, no list), or a slideshow
\* (media_kind "slideshow", no file_path) whose list of image paths is not
\* empty and names only files of the folder made for this request, which
\* holds no file of another request.  A slideshow download that finds no
\* image returns an error.
C33_SuccessShapes ==
    LET SingleFile(res) ==
            /\ res.media_kind = ""
            /\ res.file_path # NoPath
            /\ res.file_paths = <<>>
        InOwnFolder(r, p) ==
            /\ p.kind = "tiktok_slideshow"
            /\ p.h = uuid4(r)
            /\ \A i \in 1..Len(dir) :
                (dir[i].path.kind = p.kind /\ dir[i].path.h = p.h) => dir[i].by = r
        SlideshowShape(r, res) ==
            /\ res.media_kind = "slideshow"
            /\ res.file_path = NoPath
            /\ res.file_paths # <<>>
            /\ \A i \in 1..Len(res.file_paths) : InOwnFolder(r, res.file_paths[i])
    IN  \A r \in Requests :
            (Returned(r) /\ result[r].status = "success") =>
                (SingleFile(result[r]) \/ SlideshowShape(r, result[r]))

\* a TikTok photo post came back as a slideshow of several images
C33_SlideshowOfSeveralImages ==
    \E r \in Requests :
        /\ Returned(r)
        /\ result[r].status = "success"
        /\ result[r].media_kind = "slideshow"
        /\ Len(result[r].file_paths) >= 2


\* C34: a success the engine returns names a file this request's own
\* download wrote; the newest-file fallback of _download_sync never hands a
\* request the file of another request that runs at the same time.
C34_EngineSuccessIsOwnFile ==
    \A r \in Requests :
        loc[r].last.status = "success" =>
            \E w \in wrote[r] : w.path = loc[r].last.file_path


(***************************************************************************)
(* RateLimitMiddleware (middleware.py).  request[1] is the middleware as   *)
(* main.py:144 builds it; request[2] is a second one that gets the same    *)
(* messages and never runs the periodic cleanup.  now is time.time(),      *)
(* result[r] the decision of middleware r on the last message, calls[r]    *)
(* the times of the messages it passed on to the handler, user by user,    *)
(* the last limit + 1 of each.                                             *)
(***************************************************************************)
\* the users that write to the bot
Users == 1..2
\* the seconds after the middleware was built at which messages arrive
Instants == {0, 5, 10, 295, 300}
\* middleware.py:9 imports RATE_LIMIT_MESSAGE_COOLDOWN from src.config, which
\* does not define it; the model lets it be any of these numbers of seconds
Cooldowns == {0, 30}

\* main.py:144: RateLimitMiddleware(limit=3, window=10)
limit == 3
window == 10
\* middleware.py:22
CLEANUP_INTERVAL_SECONDS == 300

\* a cleanup that forgets every user, stale or not
CleanupForgettingEveryone(mw, current_time) ==
    [mw EXCEPT !.user_requests = <<>>, !.last_rate_limit_message = <<>>]

\* middleware.py:39-51: the users whose newest timestamp is more than a
\* minute old are forgotten
_cleanup_old_entries(mw, current_time) ==
    LET cutoff == current_time - 60
        Newest(timestamps) ==
            CHOOSE t \in { timestamps[i] : i \in 1..Len(timestamps) } :
                \A i \in 1..Len(timestamps) : timestamps[i] <= t
        stale_users ==
            { uid \in DOMAIN mw.user_requests :
                \/ mw.user_requests[uid] = <<>>
                \/ Newest(mw.user_requests[uid]) < cutoff }
    IN  [mw EXCEPT
            !.user_requests = [uid \in DOMAIN mw.user_requests \ stale_users |->
                                  mw.user_requests[uid]],
            !.last_rate_limit_message =
                [uid \in DOMAIN mw.last_rate_limit_message \ stale_users |->
                    mw.last_rate_limit_message[uid]]]

\* __call__ with the comparison of line 100 turned into a strict one
CallAdmittingOneMore(mw, user_id, current_time, cleaning, answer_ok) ==
    LET Cleaned(m) ==
            IF cleaning /\ current_time - m._last_cleanup_time >= CLEANUP_INTERVAL_SECONDS
            THEN [_cleanup_old_entries(m, current_time) EXCEPT
                     !._last_cleanup_time = current_time]
            ELSE m
        Kept(m) ==
            IF user_id \in DOMAIN m.user_requests
            THEN SelectSeq(m.user_requests[user_id], LAMBDA t : current_time - t < window)
            ELSE <<>>
        With(m, timestamps) ==
            [m EXCEPT !.user_requests =
                [uid \in DOMAIN m.user_requests \cup {user_id} |->
                    IF uid = user_id THEN timestamps ELSE m.user_requests[uid]]]
        \* the clock counts from the construction of the middleware, so the
        \* default 0 of line 103 (the epoch) lies further back than any cooldown
        Answers(m) ==
            /\ answer_ok
            /\ \/ user_id \notin DOMAIN m.last_rate_limit_message
               \/ current_time - m.last_rate_limit_message[user_id] > m.cooldown
        Answered(m) ==
            [m EXCEPT !.last_rate_limit_message =
                [uid \in DOMAIN m.last_rate_limit_message \cup {user_id} |->
                    IF uid = user_id THEN current_time ELSE m.last_rate_limit_message[uid]]]
        Decide(m) ==
            IF Len(Kept(m)) > limit
            THEN [mw |-> IF Answers(m) THEN Answered(With(m, Kept(m))) ELSE With(m, Kept(m)),
                  passed |-> FALSE, answered |-> Answers(m)]
            ELSE [mw |-> With(m, Kept(m) \o <<current_time>>),
                  passed |-> TRUE, answered |-> FALSE]
    IN  Decide(Cleaned(mw))

\* __call__ recording the time of a message it blocks
CallRecordingRejected(mw, user_id, current_time, cleaning, answer_ok) ==
    LET Cleaned(m) ==
            IF cleaning /\ current_time - m._last_cleanup_time >= CLEANUP_INTERVAL_SECONDS
            THEN [_cleanup_old_entries(m, current_time) EXCEPT
                     !._last_cleanup_time = current_time]
            ELSE m
        Kept(m) ==
            IF user_id \in DOMAIN m.user_requests
            THEN SelectSeq(m.user_requests[user_id], LAMBDA t : current_time - t < window)
            ELSE <<>>
        With(m, timestamps) ==
            [m EXCEPT !.user_requests =
                [uid \in DOMAIN m.user_requests \cup {user_id} |->
                    IF uid = user_id THEN timestamps ELSE m.user_requests[uid]]]
        \* the clock counts from the construction of the middleware, so the
        \* default 0 of line 103 (the epoch) lies further back than any cooldown
        Answers(m) ==
            /\ answer_ok
            /\ \/ user_id \notin DOMAIN m.last_rate_limit_message
               \/ current_time - m.last_rate_limit_message[user_id] > m.cooldown
        Answered(m) ==
            [m EXCEPT !.last_rate_limit_message =
                [uid \in DOMAIN m.last_rate_limit_message \cup {user_id} |->
                    IF uid = user_id THEN current_time ELSE m.last_rate_limit_message[uid]]]
        Decide(m) ==
            IF Len(Kept(m)) >= limit
            THEN [mw |-> With(m, Kept(m) \o <<current_time>>),
                  passed |-> FALSE, answered |-> Answers(m)]
            ELSE [mw |-> With(m, Kept(m) \o <<current_time>>),
                  passed |-> TRUE, answered |-> FALSE]
    IN  Decide(Cleaned(mw))

\* middleware.py:68-126 for a message of user_id at current_time:
\* [mw, passed, answered].  `cleaning` is FALSE for the middleware that
\* never cleans up; `answer_ok` tells whether event.answer succeeds.
__call__(mw, user_id, current_time, cleaning, answer_ok) ==
    LET Cleaned(m) ==
            IF cleaning /\ current_time - m._last_cleanup_time >= CLEANUP_INTERVAL_SECONDS
            THEN [_cleanup_old_entries(m, current_time) EXCEPT
                     !._last_cleanup_time = current_time]
            ELSE m
        Kept(m) ==
            IF user_id \in DOMAIN m.user_requests
            THEN SelectSeq(m.user_requests[user_id], LAMBDA t : current_time - t < window)
            ELSE <<>>
        With(m, timestamps) ==
            [m EXCEPT !.user_requests =
                [uid \in DOMAIN m.user_requests \cup {user_id} |->
                    IF uid = user_id THEN timestamps ELSE m.user_requests[uid]]]
        \* the clock counts from the construction of the middleware, so the
        \* default 0 of line 103 (the epoch) lies further back than any cooldown
        Answers(m) ==
            /\ answer_ok
            /\ \/ user_id \notin DOMAIN m.last_rate_limit_message
               \/ current_time - m.last_rate_limit_message[user_id] > m.cooldown
        Answered(m) ==
            [m EXCEPT !.last_rate_limit_message =
                [uid \in DOMAIN m.last_rate_limit_message \cup {user_id} |->
                    IF uid = user_id THEN current_time ELSE m.last_rate_limit_message[uid]]]
        Decide(m) ==
            IF Len(Kept(m)) >= limit
            THEN [mw |-> IF Answers(m) THEN Answered(With(m, Kept(m))) ELSE With(m, Kept(m)),
                  passed |-> FALSE, answered |-> Answers(m)]
            ELSE [mw |-> With(m, Kept(m) \o <<current_time>>),
                  passed |-> TRUE, answered |-> FALSE]
    IN  Decide(Cleaned(mw))

\* middleware.py:24-37, built when the clock shows 0
InitLimiter ==
    \E cooldown \in Cooldowns :
        StartedAt([r \in Requests |->
                      [user_requests |-> <<>>, last_rate_limit_message |-> <<>>,
                       _last_cleanup_time |-> 0, cooldown |-> cooldown]], "ready")

TimePasses ==
    /\ \E later \in Instants :
        /\ later > now
        /\ now' = later
    /\ UNCHANGED <<dir, request, pc, loc, result, calls, perm, wrote, first_error, page>>

\* a message of a user reaches both middlewares
Message ==
    \E user_id \in Users, answer_ok \in BOOLEAN :
    \E Out \in {[r \in Requests |-> __call__(request[r], user_id, now, r = 1, answer_ok)]} :
        LET Before(r) == IF user_id \in DOMAIN calls[r] THEN calls[r][user_id] ELSE <<>>
            Recent(r) ==
                Cardinality({ i \in 1..Len(Before(r)) : now - Before(r)[i] < window })
            Passed(r) ==
                [uid \in DOMAIN calls[r] \cup {user_id} |->
                    IF uid # user_id THEN calls[r][uid]
                    ELSE IF Len(Before(r)) > limit THEN Tail(Before(r)) \o <<now>>
                    ELSE Before(r) \o <<now>>]
        IN  /\ request' = [r \in Requests |-> Out[r].mw]
            /\ result' = [r \in Requests |->
                             [user |-> user_id, at |-> now, passed |-> Out[r].passed,
                              answered |-> Out[r].answered, recent |-> Recent(r)]]
            /\ calls' = [r \in Requests |-> IF Out[r].passed THEN Passed(r) ELSE calls[r]]
            /\ pc' = [r \in Requests |-> "decided"]
            /\ UNCHANGED <<now, dir, loc, perm, wrote, first_error, page>>

NextLimiter ==
    \/ TimePasses
    \/ Message

SpecLimiter ==
    InitLimiter /\ [][NextLimiter]_vars
\* C36: for every user, the messages passed on to the handler within any
\* window of `window` seconds, from an instant t up to but not including
\* t + window, are at most `limit`
C36_AtMostLimitPerWindow ==
    \A r \in Requests : \A uid \in DOMAIN calls[r] :
        LET passed == calls[r][uid]
        IN  \A i \in 1..Len(passed) :
                Cardinality({ j \in 1..Len(passed) :
                                /\ passed[i] <= passed[j]
                                /\ passed[j] < passed[i] + window }) <= limit

\* a user whose message is blocked after `limit` messages were passed on
\* within the window
C36_BlockedAtTheLimit ==
    /\ pc[1] = "decided"
    /\ ~result[1].passed
    /\ result[1].recent = limit
    /\ result[1].at > 0

\* C37: a blocked message leaves no timestamp behind, and a message is
\* passed on exactly when fewer than `limit` of the user's earlier passed
\* messages lie within the last `window` seconds
C37_RejectedMessagesAreNotRecorded ==
    \A r \in Requests :
        pc[r] = "decided" =>
            LET uid == result[r].user
                passed == IF uid \in DOMAIN calls[r] THEN calls[r][uid] ELSE <<>>
            IN  /\ result[r].passed <=> result[r].recent < limit
                /\ request[r].user_requests[uid]
                       = SelectSeq(passed, LAMBDA t : result[r].at - t < window)

\* a user who was blocked and told so is admitted later while two of their
\* passed messages are still inside the window
C37_AdmittedAgainAfterABlock ==
    /\ pc[1] = "decided"
    /\ result[1].passed
    /\ result[1].recent = limit - 1
    /\ result[1].user \in DOMAIN request[1].last_rate_limit_message
    /\ request[1].last_rate_limit_message[result[1].user] < result[1].at

\* C38: the middleware that cleans up and the one that never does decide
\* every message alike
C38_CleanupChangesNoDecision ==
    pc[1] = "decided" => result[1].passed = result[2].passed

\* the cleanup has forgotten a user the other middleware still knows, and
\* a message was decided after that
C38_CleanupForgotAUser ==
    /\ pc[1] = "decided"
    /\ request[1]._last_cleanup_time > 0
    /\ result[1].at >= request[1]._last_cleanup_time
    /\ DOMAIN request[2].user_requests \ DOMAIN request[1].user_requests # {}


(***************************************************************************)
(* The chat of one user: handle_link and process_download_callback run as  *)
(* tasks of the dispatcher, which starts the handler of an update without  *)
(* waiting for the handler of the one before.  pc[r] is the position of    *)
(* task r and request[r] the link its download was started for; `page` is  *)
(* the FSM data of the chat (url <<>>: none stored), `result` the user's   *)
(* document in the store, and `calls` counts what has happened: the        *)
(* updates handled, the downloads started, the files delivered, and        *)
(* `base`, the downloads_count of the document at the start.               *)
(***************************************************************************)
\* the updates of the user that are handled
MaxUpdates == 5

\* database.py:38-45 writes a document without "downloads_count"; the
\* documents of bot.py:37-42, in the same collection, have one
InitChat ==
    \E status \in {"free", "premium"} :
        \E doc \in {[status |-> status]}
                   \cup { [status |-> status, downloads_count |-> n] : n \in {9, 10} } :
            /\ now = 0
            /\ dir = <<>>
            /\ request = [r \in Requests |-> Idle]
            /\ pc = [r \in Requests |-> "idle"]
            /\ loc = [r \in Requests |-> Locals]
            /\ result = doc
            /\ calls = [updates |-> 0, started |-> 0, delivered |-> 0, buttons |-> FALSE,
                        base |-> IF "downloads_count" \in DOMAIN doc
                                 THEN doc.downloads_count ELSE 0]
            /\ perm = [r \in Requests |-> NoPerm]
            /\ wrote = [r \in Requests |-> {}]
            /\ first_error = [r \in Requests |-> <<>>]
            /\ page = [url |-> <<>>, format_message_id |-> FALSE]

\* handlers.py:727-755: user_data.get("downloads_count") is None for a
\* document without the field, and None >= 10 raises TypeError
LinkMessage(r) ==
    /\ pc[r] \notin {"replying", "downloading"}
    /\ calls.updates < MaxUpdates
    /\ calls' = [calls EXCEPT !.updates = @ + 1]
    /\ \E url \in {URL_YOUTUBE, URL_OTHER} :
        IF result.status = "free" /\ "downloads_count" \notin DOMAIN result
        THEN pc' = [pc EXCEPT ![r] = "link_crashed"] /\ page' = page
        ELSE IF result.status = "free" /\ result.downloads_count >= 10
        THEN pc' = [pc EXCEPT ![r] = "refused"] /\ page' = page
        ELSE IF ~validate_url(url).ok
        THEN pc' = [pc EXCEPT ![r] = "invalid"] /\ page' = page
        ELSE /\ pc' = [pc EXCEPT ![r] = "replying"]
             /\ page' = [page EXCEPT !.url = url]
    /\ UNCHANGED <<now, dir, request, loc, result, perm, wrote, first_error>>

\* handlers.py:756-765: the format question is sent and its id stored
LinkReply(r) ==
    /\ pc[r] = "replying"
    /\ \E telegram_ok \in BOOLEAN :
        IF telegram_ok
        THEN /\ pc' = [pc EXCEPT ![r] = "asked"]
             /\ page' = [page EXCEPT !.format_message_id = TRUE]
             /\ calls' = [calls EXCEPT !.buttons = TRUE]
        ELSE /\ pc' = [pc EXCEPT ![r] = "link_crashed"]
             /\ UNCHANGED <<page, calls>>
    /\ UNCHANGED <<now, dir, request, loc, result, perm, wrote, first_error>>

\* handlers.py:767-790: a format button of any format question sent so far
\* is pressed
ButtonPressed(r) ==
    /\ pc[r] \notin {"replying", "downloading"}
    /\ calls.updates < MaxUpdates
    /\ calls.buttons
    /\ IF page.url = <<>>
       THEN /\ pc' = [pc EXCEPT ![r] = "expired"]
            /\ calls' = [calls EXCEPT !.updates = @ + 1]
            /\ request' = request
       ELSE /\ \E download_type \in {"video", "audio"} :
                request' = [request EXCEPT ![r] = [url |-> page.url, type |-> download_type]]
            /\ pc' = [pc EXCEPT ![r] = "downloading"]
            /\ calls' = [calls EXCEPT !.updates = @ + 1, !.started = @ + 1]
    /\ UNCHANGED <<now, dir, loc, result, perm, wrote, first_error, page>>

\* handlers.py:786-947 for every way download() can end and every answer
\* of Telegram: state.clear() is the last statement of the branches of
\* lines 791-821 and 826-838 and of the finally block; an exception of
\* download() other than the timeout, the KeyError of result["file_path"]
\* for a slideshow, and an edit_text that raises leave the handler before
\* it.  db.increment_download (line 882) is no method of database.py: the
\* call raises AttributeError, which line 925 catches.
CallbackEnds(r) ==
    /\ pc[r] = "downloading"
    /\ \E ending \in {"timeout", "raised", "error", "slideshow", "oversize", "file"},
          telegram_ok \in BOOLEAN, uploaded \in BOOLEAN :
        LET cleared == [url |-> <<>>, format_message_id |-> FALSE]
        IN  IF ending \in {"raised", "slideshow"}
            THEN /\ pc' = [pc EXCEPT ![r] = "crashed"]
                 /\ UNCHANGED <<page, calls>>
            ELSE IF ending \in {"timeout", "error", "oversize"}
            THEN /\ pc' = [pc EXCEPT ![r] =
                              IF ~telegram_ok THEN "crashed"
                              ELSE IF ending = "timeout" THEN "timed_out"
                              ELSE IF ending = "error" THEN "failed" ELSE "not_sent"]
                 /\ page' = IF telegram_ok THEN cleared ELSE page
                 /\ calls' = calls
            ELSE /\ pc' = [pc EXCEPT ![r] = IF uploaded THEN "sent" ELSE "not_sent"]
                 /\ page' = cleared
                 /\ calls' = [calls EXCEPT !.delivered = IF uploaded THEN @ + 1 ELSE @]
    /\ UNCHANGED <<now, dir, request, loc, result, perm, wrote, first_error>>

NextChat ==
    \E r \in Requests :
        \/ LinkMessage(r)
        \/ LinkReply(r)
        \/ ButtonPressed(r)
        \/ CallbackEnds(r)

SpecChat ==
    InitChat /\ [][NextChat]_vars

\* C35: a free user never has more than 10 delivered downloads, and the
\* counter of the document goes up by one with every delivered file
C35_QuotaOfTenIsKept ==
    result.status = "free" =>
        /\ calls.base + calls.delivered <= 10
        /\ "downloads_count" \in DOMAIN result =>
               result.downloads_count = calls.base + calls.delivered

\* C39: whenever a callback that started a download ends, the stored
\* session is empty afterwards
C39_SessionClearedAtEveryEnd ==
    [][\A r \in Requests :
           (pc[r] = "downloading" /\ pc'[r] # "downloading") => page'.url = <<>>]_vars

(***************************************************************************)
(* The option sets of the attempts of two requests of one Downloader.      *)
(* `page` holds the dictionaries of the class, loc[r].attempt the number   *)
(* of the next attempt of request r, and calls[r] the option sets handed   *)
(* to _download_sync so far, each with what yt-dlp read through it at      *)
(* that moment.                                                            *)
(***************************************************************************)
InitRotation ==
    \E i, j \in 1..Len(RequestUrls) :
        \E type \in {"video", "audio"} :
            /\ now = 0
            /\ dir = <<>>
            /\ request = [r \in Requests |->
                              [url |-> RequestUrls[IF r = 1 THEN i ELSE j], type |-> type]]
            /\ pc = [r \in Requests |-> "attempt"]
            /\ loc = [r \in Requests |-> [attempt |-> 1]]
            /\ result = [r \in Requests |-> NoResult]
            /\ calls = [r \in Requests |-> <<>>]
            /\ perm = [r \in Requests |-> NoPerm]
            /\ wrote = [r \in Requests |-> {}]
            /\ first_error = [r \in Requests |-> <<>>]
            /\ page = EXTRACTOR_ARGS

\* downloader.py:762-783: a pass of the retry loop builds its option set
\* and hands it to the worker pool
NextAttempt(r) ==
    /\ pc[r] = "attempt"
    /\ LET out == Rotate(page, _get_opts(request[r].type, request[r].url, FALSE),
                         PlatformOf[request[r].url], loc[r].attempt)
       IN  /\ page' = out.shared
           /\ calls' = [calls EXCEPT ![r] =
                           Append(@, [opts |-> out.opts, seen |-> Seen(out.shared, out.opts)])]
    /\ loc' = [loc EXCEPT ![r].attempt = @ + 1]
    /\ pc' = [pc EXCEPT ![r] = IF loc[r].attempt < max_retries THEN "attempt" ELSE "done"]
    /\ UNCHANGED <<now, dir, request, result, perm, wrote, first_error>>

NextRotation ==
    \E r \in Requests : NextAttempt(r)

SpecRotation ==
    InitRotation /\ [][NextRotation]_vars

\* C40: attempt k is run with the k-th User-Agent and, for YouTube, the
\* k-th client list (both counted round); the dictionaries of the class
\* stay as they were, and every option set handed over so far, of this
\* request or another, still reads as it did when it was handed over
C40_RotationTouchesOwnOptionsOnly ==
    /\ page = EXTRACTOR_ARGS
    /\ \A r \in Requests : \A k \in 1..Len(calls[r]) :
        /\ Seen(page, calls[r][k].opts) = calls[r][k].seen
        /\ calls[r][k].seen.user_agent = ((k - 1) % 3) + 1
        /\ calls[r][k].seen.player_client =
               IF PlatformOf[request[r].url] # "youtube"
               THEN <<"tv", "android_sdkless", "web_safari", "ios", "android">>
               ELSE IF k = 1 THEN <<"tv", "android_sdkless", "web_safari">>
               ELSE IF k = 2 THEN <<"android_sdkless", "tv", "ios">>
               ELSE <<"ios", "android_sdkless", "tv">>

\* two YouTube requests, the first at its third attempt while the option
\* set of the second one's first attempt is in use
C40_TwoRequestsRotating ==
    /\ \A r \in Requests : PlatformOf[request[r].url] = "youtube"
    /\ Len(calls[1]) = 3
    /\ Len(calls[2]) = 1
====
